---- MODULE Spec2Model ----
(***************************************************************************)
(* Model of the outbound voice-call bridge of backend/app/api/voice.py:    *)
(* the Call Registry (_call_context), the Completed-Call Store             *)
(* (_completed_calls), initiate_call, voice_websocket and the three relay  *)
(* tasks of _handle_twilio_voice (twilio_receiver, sts_sender,             *)
(* sts_receiver) with the completion block that writes the record.         *)
(*                                                                         *)
(* Text is modelled as a sequence of one-character strings, so that        *)
(* lower(), strip() and the substring test are computed, not assumed.      *)
(* Audio is modelled as a sequence of runs [f, lo, n]: n bytes of the      *)
(* payload of carrier frame f starting at offset lo; every byte keeps its  *)
(* identity through extend and slicing.                                    *)
(*                                                                         *)
(* One step of a task is the code it runs between two suspension points    *)
(* of the event loop (asyncio runs one task at a time).                    *)
(***************************************************************************)
EXTENDS Integers, Sequences, FiniteSets, TLC

\* ------------------------------------------------------------------ bounds
\* media-stream connections opened during a run
MaxBridges == 2
\* calls initiated during a run
MaxCalls == 2
\* the latest second the wall clock reaches during a run
MaxTime == 1
\* agent messages sent and not yet read by sts_receiver, per connection
MaxInFlight == 1
\* Spec: carrier frames and agent messages, all connections together
MaxFrames == 1
MaxMsgs == 1
\* AudioSpec: carrier frames and agent messages of the one connection
AudioFrames == 3
AudioMsgs == 1
\* TextSpec: carrier frames and agent messages of the one connection
TextFrames == 2
TextMsgs == 2

\* --------------------------------------------------------- program constants
BUFFER_SIZE == 3200
UNKNOWN_CALL_CODE == 1008
\* poll_for_transcript: seconds between polls, at first and once the
\* elapsed time exceeds SLOW_AFTER
POLL_INTERVAL == 3
SLOW_INTERVAL == 5
SLOW_AFTER == 30

\* ------------------------------------------------------------------- text
UpperChars ==
  << "A", "B", "C", "D", "E", "F", "G", "H", "I", "J", "K", "L", "M",
     "N", "O", "P", "Q", "R", "S", "T", "U", "V", "W", "X", "Y", "Z" >>

LowerChars ==
  << "a", "b", "c", "d", "e", "f", "g", "h", "i", "j", "k", "l", "m",
     "n", "o", "p", "q", "r", "s", "t", "u", "v", "w", "x", "y", "z" >>

Whitespace == {" ", "\n", "\t", "\r"}

\* the lower-case letter of each upper-case letter
LowerTable ==
  [ch \in {UpperChars[i] : i \in 1..26} |->
     LowerChars[CHOOSE i \in 1..26 : UpperChars[i] = ch]]
\* str.lower() on one character
LowerChar(ch) == IF ch \in DOMAIN LowerTable THEN LowerTable[ch] ELSE ch

\* str.lower()
Lower(text) == [i \in 1..Len(text) |-> LowerChar(text[i])]

\* str.strip(): leading and trailing whitespace removed
Strip(text) ==
  LET keep == {i \in 1..Len(text) : text[i] \notin Whitespace}
  IN  IF keep = {} THEN << >>
      ELSE LET lo == CHOOSE i \in keep : \A j \in keep : i <= j
               hi == CHOOSE i \in keep : \A j \in keep : j <= i
           IN  SubSeq(text, lo, hi)

\* Python's `phrase in t`
Contains(t, phrase) ==
  \E i \in 0..(Len(t) - Len(phrase)) : SubSeq(t, i + 1, i + Len(phrase)) = phrase

\* str.startswith
StartsWith(t, prefix) ==
  Len(t) >= Len(prefix) /\ SubSeq(t, 1, Len(prefix)) = prefix

RECURSIVE RStrip(_, _)
\* str.rstrip(ch)
RStrip(t, ch) ==
  IF t # << >> /\ t[Len(t)] = ch THEN RStrip(SubSeq(t, 1, Len(t) - 1), ch) ELSE t

GoodbyePhrases ==
  << << "b", "y", "e" >>,
     << "g", "o", "o", "d", "b", "y", "e" >>,
     << "g", "o", "o", "d", " ", "b", "y", "e" >>,
     << "g", "o", "o", "d", "-", "b", "y" >>,
     << "b", "y", "e", " ", "b", "y", "e" >>,
     << "g", "o", "t", "t", "a", " ", "g", "o" >>,
     << "h", "a", "v", "e", " ", "t", "o", " ", "g", "o" >> >>

\* variant: the text is not lower-cased before the phrases are looked up
IsGoodbyeCaseSensitive(text) ==
  IF text = << >> THEN FALSE
  ELSE LET t == Strip(text)
       IN  \E p \in 1..Len(GoodbyePhrases) : Contains(t, GoodbyePhrases[p])

\* _is_goodbye
IsGoodbye(text) ==
  IF text = << >> THEN FALSE
  ELSE LET t == Strip(Lower(text))
       IN  \E p \in 1..Len(GoodbyePhrases) : Contains(t, GoodbyePhrases[p])

\* the call-ending instruction initiate_call appends to a prompt
GoodbyeInstruction ==
  << "\n", "\n", "W", "h", "e", "n", " ", "t", "h", "e", " ", "u",
     "s", "e", "r", " ", "s", "a", "y", "s", " ", "g", "o", "o",
     "d", "b", "y", "e", ",", " ", "b", "y", "e", ",", " ", "o",
     "r", " ", "w", "a", "n", "t", "s", " ", "t", "o", " ", "e",
     "n", "d", " ", "t", "h", "e", " ", "c", "a", "l", "l", ",",
     " ", "s", "a", "y", " ", "a", " ", "b", "r", "i", "e", "f",
     " ", "f", "a", "r", "e", "w", "e", "l", "l", " ", "l", "i",
     "k", "e", " ", "\"", "T", "h", "a", "n", "k", "s", " ", "f",
     "o", "r", " ", "y", "o", "u", "r", " ", "t", "i", "m", "e",
     ".", " ", "G", "o", "o", "d", "b", "y", "e", "!", "\"", " ",
     "a", "n", "d", " ", "t", "h", "e", " ", "c", "a", "l", "l",
     " ", "w", "i", "l", "l", " ", "e", "n", "d", "." >>

\* variant: the prompt is searched as written, without lower-casing it
AugmentPromptCaseSensitive(prompt) ==
  IF ~Contains(prompt, << "g", "o", "o", "d", "b", "y", "e" >>)
       /\ ~Contains(prompt, << "b", "y", "e" >>)
    THEN prompt \o GoodbyeInstruction
    ELSE prompt

\* initiate_call: the prompt stored in the registry
AugmentPrompt(prompt) ==
  IF ~Contains(Lower(prompt), << "g", "o", "o", "d", "b", "y", "e" >>)
       /\ ~Contains(Lower(prompt), << "b", "y", "e" >>)
    THEN prompt \o GoodbyeInstruction
    ELSE prompt

\* ------------------------------------------------------------------ audio
RECURSIVE BufLen(_)
\* len(inbuffer)
BufLen(buf) == IF buf = << >> THEN 0 ELSE Head(buf).n + BufLen(Tail(buf))

RECURSIVE TakeBytes(_, _)
\* inbuffer[:k]
TakeBytes(buf, k) ==
  IF k = 0 \/ buf = << >> THEN << >>
  ELSE IF Head(buf).n <= k
         THEN << Head(buf) >> \o TakeBytes(Tail(buf), k - Head(buf).n)
         ELSE << [f |-> Head(buf).f, lo |-> Head(buf).lo, n |-> k] >>

RECURSIVE DropBytes(_, _)
\* inbuffer[k:]
DropBytes(buf, k) ==
  IF k = 0 \/ buf = << >> THEN buf
  ELSE IF Head(buf).n <= k
         THEN DropBytes(Tail(buf), k - Head(buf).n)
         ELSE << [f |-> Head(buf).f, lo |-> Head(buf).lo + k, n |-> Head(buf).n - k] >>
              \o Tail(buf)

\* inbuffer.extend(payload): the n decoded bytes of carrier frame f
ExtendBytes(buf, f, n) ==
  IF n = 0 THEN buf ELSE buf \o << [f |-> f, lo |-> 0, n |-> n] >>

RECURSIVE DrainChunksStrict(_)
\* variant: a chunk is cut only while more than BUFFER_SIZE bytes are buffered
DrainChunksStrict(buf) ==
  IF BufLen(buf) > BUFFER_SIZE
    THEN << TakeBytes(buf, BUFFER_SIZE) >>
           \o DrainChunksStrict(DropBytes(buf, BUFFER_SIZE))
    ELSE << >>

RECURSIVE DrainChunksPartial(_)
\* variant: what is left below BUFFER_SIZE is cut as a last, shorter chunk
DrainChunksPartial(buf) ==
  IF buf # << >>
    THEN << TakeBytes(buf, BUFFER_SIZE) >> \o DrainChunksPartial(DropBytes(buf, BUFFER_SIZE))
    ELSE << >>

RECURSIVE DrainChunks(_)
\* the chunks twilio_receiver's while loop cuts off a buffer, in order
DrainChunks(buf) ==
  IF BufLen(buf) >= BUFFER_SIZE
    THEN << TakeBytes(buf, BUFFER_SIZE) >> \o DrainChunks(DropBytes(buf, BUFFER_SIZE))
    ELSE << >>

\* variant: the bytes below BUFFER_SIZE are not kept for the next frame
DrainRestDiscard(buf) == << >>

RECURSIVE DrainRest(_)
\* what the while loop leaves in the buffer
DrainRest(buf) ==
  IF BufLen(buf) >= BUFFER_SIZE THEN DrainRest(DropBytes(buf, BUFFER_SIZE)) ELSE buf


\* ------------------------------------------------------------------ inputs
\* the call ids a media stream may name: 0 is an id that initiate never mints
StreamCallIds == 0..MaxCalls
Bridges == 1..MaxBridges

\* request prompts: an empty one, one that does not mention ending the call,
\* and two that do, in mixed and in upper case
Prompts ==
  { << >>,
    << "a", "s", "k" >>,
    << "s", "a", "y", " ", "B", "y", "e" >>,
    << "G", "O", "O", "D", "B", "Y", "E" >> }

Greetings == { << "H", "i" >> }

HttpBase == << "h", "t", "t", "p", ":", "/", "/", "x", "/" >>

SettingNames ==
  {"twilio_account_sid", "twilio_auth_token", "twilio_phone_number",
   "deepgram_api_key", "server_base_url"}

\* the default of Settings.server_base_url
DefaultBase ==
  << "h", "t", "t", "p", ":", "/", "/", "1", "2", "7", ".", "0", ".", "0", ".",
     "1", ":", "5", "0", "0", "0" >>

\* the Settings object built from an empty environment; fields_set names the
\* values the environment provides
DefaultSettings ==
  [ twilio_account_sid |-> "", twilio_auth_token |-> "",
    twilio_phone_number |-> "", deepgram_api_key |-> "",
    server_base_url |-> DefaultBase, fields_set |-> {} ]

AllSetSettings ==
  [ twilio_account_sid |-> "AC1", twilio_auth_token |-> "tok",
    twilio_phone_number |-> "+1555", deepgram_api_key |-> "dg",
    server_base_url |-> HttpBase, fields_set |-> SettingNames ]

\* the Settings object when the environment does not provide value f
Unset(s, f) == [s EXCEPT ![f] = DefaultSettings[f], !.fields_set = @ \ {f}]

\* the process configurations: everything set, exactly one value not set, or
\* a base URL that is empty or has no scheme
SettingsSet ==
  {AllSetSettings}
    \cup {Unset(AllSetSettings, f) : f \in SettingNames}
    \cup { [AllSetSettings EXCEPT !.server_base_url = << >>],
           [AllSetSettings EXCEPT !.server_base_url = << "x", "/" >>] }

\* decoded payload sizes of inbound media frames
PayloadSizes == {1600, 6400}

\* utterances of conversation-text events
Contents ==
  { << >>,
    << "h", "i" >>,
    << "o", "k", "\n", "o", "k" >>,
    << "G", "O", "T", "T", "A", " ", "G", "O" >>,
    << "T", "h", "a", "n", "k", "s", ",", " ", "B", "y", "e", "!" >> }

Roles == {"user", "agent", ""}

StartFrame(sid) == [kind |-> "start", sid |-> sid, track |-> "", n |-> 0]
MediaFrame(track, n) == [kind |-> "media", sid |-> "", track |-> track, n |-> n]
StopFrame == [kind |-> "stop", sid |-> "", track |-> "", n |-> 0]
\* text that json.loads rejects
BadJsonFrame == [kind |-> "badjson", sid |-> "", track |-> "", n |-> 0]
\* an inbound media frame whose payload b64decode rejects
BadPayloadFrame == [kind |-> "badpayload", sid |-> "", track |-> "inbound", n |-> 0]

BinaryMsg(id) == [kind |-> "binary", id |-> id, role |-> "", content |-> << >>]
UserStartedSpeakingMsg ==
  [kind |-> "UserStartedSpeaking", id |-> 0, role |-> "", content |-> << >>]
ConversationTextMsg(role, content) ==
  [kind |-> "ConversationText", id |-> 0, role |-> role, content |-> content]
\* text that json.loads rejects
BadJsonMsg == [kind |-> "badjson", id |-> 0, role |-> "", content |-> << >>]
\* valid JSON that is not an object (data.get raises AttributeError)
NonObjectMsg == [kind |-> "nonobject", id |-> 0, role |-> "", content |-> << >>]

QNone == [kind |-> "none", bytes |-> << >>]
QChunk(c) == [kind |-> "chunk", bytes |-> c]

ClearOut(sid) == [event |-> "clear", streamSid |-> sid, payload |-> 0]
MediaOut(sid, id) == [event |-> "media", streamSid |-> sid, payload |-> id]

\* ------------------------------------------------------------------- state
VARIABLES
  settings,          \* get_settings()
  call_context,      \* _call_context: call_id -> {agent_prompt, greeting}
  completed_calls,   \* _completed_calls: call_id -> record
  minted,            \* how many call ids uuid4 has produced
  last_initiate,     \* the response of the last initiate_call request
  transcript_files,  \* files of the transcript directory: timestamp -> text
  now,               \* the wall clock, in seconds, as last read
  opened,            \* how many media-stream connections were opened
  call_id,           \* per connection: the call_id of its path
  mainPc,            \* per connection: where voice_websocket/_handle_twilio_voice is
  recvPc,            \* recv_task (twilio_receiver)
  senderPc,          \* sender_task (sts_sender)
  receiverPc,        \* receiver_task (sts_receiver)
  ws,                \* the carrier websocket
  dg,                \* the voice-agent connection dg_ws
  dg_inbox,          \* messages the agent has sent and sts_receiver has not read
  config,            \* the Settings message built for dg_ws (empty: not built)
  audio_queue,
  streamsid_queue,
  inbuffer,
  stream_sid,
  transcript,
  end_requested,
  frames_in,         \* carrier frames twilio_receiver has received, in order
  msgs_in,           \* agent messages sts_receiver has read, in order
  dg_sent,           \* chunks sts_sender has written to dg_ws, in order
  ws_sent,           \* frames sent to the carrier, in order
  last_twiml,        \* the response of the last twiml_webhook request
  poller             \* a call of poll_for_transcript: its locals and result

storeVars == << call_context, completed_calls, minted, last_initiate,
                transcript_files, now >>
taskVars == << recvPc, senderPc, receiverPc >>
connVars == << ws, dg, dg_inbox, config >>
flowVars == << audio_queue, streamsid_queue, inbuffer, stream_sid, transcript,
               end_requested >>
logVars == << frames_in, msgs_in, dg_sent, ws_sent >>
\* what the callers of the service hold
clientVars == << last_twiml, poller >>
vars == << settings, storeVars, opened, call_id, mainPc, taskVars, connVars,
           flowVars, logVars, clientVars >>

NoFunction == [x \in {} |-> 0]

\* no call-control request was answered yet
NoTwiml == [status |-> 0, stream_url |-> << >>]
\* poll_for_transcript has not been called
NoPoll ==
  [pc |-> "idle", call_id |-> 0, timeout |-> 0, elapsed |-> 0, interval |-> 0,
   polls |-> 0, last |-> "none", result |-> [status |-> "none"]]
InitClient == last_twiml = NoTwiml /\ poller = NoPoll

\* no media stream has connected yet
InitBridges ==
  /\ opened = 0
  /\ call_id = [b \in Bridges |-> 0]
  /\ mainPc = [b \in Bridges |-> "none"]
  /\ recvPc = [b \in Bridges |-> "none"]
  /\ senderPc = [b \in Bridges |-> "none"]
  /\ receiverPc = [b \in Bridges |-> "none"]
  /\ ws = [b \in Bridges |-> [client |-> "none", app |-> "none", code |-> 0]]
  /\ dg = [b \in Bridges |-> "none"]
  /\ dg_inbox = [b \in Bridges |-> << >>]
  /\ config = [b \in Bridges |-> << >>]
  /\ audio_queue = [b \in Bridges |-> << >>]
  /\ streamsid_queue = [b \in Bridges |-> << >>]
  /\ inbuffer = [b \in Bridges |-> << >>]
  /\ stream_sid = [b \in Bridges |-> "unset"]
  /\ transcript = [b \in Bridges |-> << >>]
  /\ end_requested = [b \in Bridges |-> FALSE]
  /\ frames_in = [b \in Bridges |-> << >>]
  /\ msgs_in = [b \in Bridges |-> << >>]
  /\ dg_sent = [b \in Bridges |-> << >>]
  /\ ws_sent = [b \in Bridges |-> << >>]

Init ==
  /\ settings \in SettingsSet
  /\ call_context = NoFunction
  /\ completed_calls = NoFunction
  /\ minted = 0
  /\ last_initiate = [status |-> "none", call_id |-> 0]
  /\ transcript_files = NoFunction
  /\ now = 0
  /\ InitBridges
  /\ InitClient


\* ---------------------------------------------------------------- helpers
RECURSIVE SumLen(_, _)
SumLen(f, b) == IF b = 0 THEN 0 ELSE Len(f[b]) + SumLen(f, b - 1)

\* carrier frames consumed so far, all connections together
FramesConsumed == SumLen(frames_in, MaxBridges)
\* agent messages sent so far, all connections together
MsgsSent == SumLen(msgs_in, MaxBridges) + SumLen(dg_inbox, MaxBridges)

\* variant: the pop empties the dictionary
RemoveAll(f, k) == [x \in {} |-> f[x]]
Remove(f, k) == [x \in DOMAIN f \ {k} |-> f[x]]
\* variant: the assignment drops the other keys of the dictionary
PutOnly(f, k, v) == [x \in {k} |-> v]
Put(f, k, v) == [x \in DOMAIN f \cup {k} |-> IF x = k THEN v ELSE f[x]]

\* the frames the carrier may send next on connection b: each start frame
\* carries a stream id of its own
CarrierFrames(b) ==
  LET starts == Len(SelectSeq(frames_in[b], LAMBDA fr : fr.kind = "start"))
  IN  {StartFrame(IF starts = 0 THEN "MZ1" ELSE "MZ2"), StopFrame, BadJsonFrame,
       BadPayloadFrame, MediaFrame("outbound", 1600)}
      \cup {MediaFrame("inbound", n) : n \in PayloadSizes}

\* the messages the agent may send next on connection b: each binary message
\* is a different piece of audio
AgentMsgs(b) ==
  LET all == msgs_in[b] \o dg_inbox[b]
      bins == Len(SelectSeq(all, LAMBDA m : m.kind = "binary"))
  IN  {BinaryMsg(bins + 1), UserStartedSpeakingMsg, BadJsonMsg, NonObjectMsg}
      \cup {ConversationTextMsg(r, c) : r \in Roles, c \in Contents}

RECURSIVE JoinLines(_)
\* "\n".join(lines)
JoinLines(lines) ==
  IF lines = << >> THEN << >>
  ELSE IF Len(lines) = 1 THEN lines[1]
  ELSE lines[1] \o << "\n" >> \o JoinLines(Tail(lines))

RECURSIVE Concat(_)
Concat(parts) == IF parts = << >> THEN << >> ELSE Head(parts) \o Concat(Tail(parts))

AgentLabel == << "A", "g", "e", "n", "t" >>
DealerLabel == << "D", "e", "a", "l", "e", "r" >>
UserLabel == << "U", "s", "e", "r" >>

\* the transcript_text of a Completed Call Record
TranscriptText(tr) ==
  JoinLines([i \in 1..Len(tr) |->
    (IF tr[i][1] = "agent" THEN AgentLabel ELSE DealerLabel) \o << ":", " " >> \o tr[i][2]])

\* the record _handle_twilio_voice stores on completion
CompletedRecord(tr) ==
  [status |-> "completed", transcript |-> tr, transcript_text |-> TranscriptText(tr)]

\* the text _write_transcript writes to the file
TranscriptFileText(tr) ==
  Concat([i \in 1..Len(tr) |->
    (IF tr[i][1] = "user" THEN UserLabel ELSE AgentLabel) \o << ":", " " >> \o tr[i][2]
      \o << "\n", "\n" >>])

\* variant: the completed store is not consulted
GetCallResultNoStore(c) ==
  IF c \in DOMAIN call_context
    THEN [status |-> "in_progress", transcript_text |-> << >>]
    ELSE [status |-> "unknown", transcript_text |-> << >>]

\* get_call_result
GetCallResult(c) ==
  IF c \in DOMAIN completed_calls THEN completed_calls[c]
  ELSE IF c \in DOMAIN call_context
    THEN [status |-> "in_progress", transcript_text |-> << >>]
    ELSE [status |-> "unknown", transcript_text |-> << >>]

\* initiate_call's precondition check
ConfigMissing(s) ==
  \/ s.twilio_account_sid = ""
  \/ s.twilio_auth_token = ""
  \/ s.twilio_phone_number = ""
  \/ s.deepgram_api_key = ""
  \/ ~StartsWith(RStrip(s.server_base_url, "/"), << "h", "t", "t", "p" >>)

\* ------------------------------------------------------ POST /api/voice/call
\* variant: a rejection by the provider leaves the registry entry in place
InitiateCallNoRollback(prompt, greeting, provider) ==
  /\ minted < MaxCalls
  /\ IF ConfigMissing(settings)
       THEN /\ last_initiate' = [status |-> "error_503", call_id |-> 0]
            /\ UNCHANGED << call_context, minted >>
       ELSE LET id == minted + 1
                entry == [agent_prompt |-> AugmentPrompt(prompt), greeting |-> greeting]
            IN  /\ minted' = id
                /\ call_context' = Put(call_context, id, entry)
                /\ last_initiate' =
                     [status |-> CASE provider = "ok" -> "initiating"
                                   [] provider = "rejected" -> "error_502"
                                   [] OTHER -> "error_500",
                      call_id |-> id]
  /\ UNCHANGED << settings, clientVars, completed_calls, transcript_files, now, opened, call_id,
                  mainPc, taskVars, connVars, flowVars, logVars >>

\* provider: what client.calls.create does: "ok", "rejected" (TwilioRestException)
\* or "error" (any other exception)
InitiateCall(prompt, greeting, provider) ==
  /\ minted < MaxCalls
  /\ IF ConfigMissing(settings)
       THEN /\ last_initiate' = [status |-> "error_503", call_id |-> 0]
            /\ UNCHANGED << call_context, minted >>
       ELSE LET id == minted + 1
                entry == [agent_prompt |-> AugmentPrompt(prompt), greeting |-> greeting]
            IN  /\ minted' = id
                /\ call_context' =
                     IF provider = "rejected" THEN Remove(Put(call_context, id, entry), id)
                     ELSE Put(call_context, id, entry)
                /\ last_initiate' =
                     [status |-> CASE provider = "ok" -> "initiating"
                                   [] provider = "rejected" -> "error_502"
                                   [] OTHER -> "error_500",
                      call_id |-> id]
  /\ UNCHANGED << settings, clientVars, completed_calls, transcript_files, now, opened, call_id,
                  mainPc, taskVars, connVars, flowVars, logVars >>

\* ------------------------------------------------- WebSocket /ws/{call_id}
\* variant: the endpoint starts a bridge without looking the call_id up
VoiceWebsocketNoLookup(c) ==
  /\ opened < MaxBridges
  /\ LET b == opened + 1
         ctx == IF c \in DOMAIN call_context
                  THEN call_context[c]
                  ELSE [agent_prompt |-> << >>, greeting |-> << >>]
     IN  /\ opened' = b
         /\ call_id' = [call_id EXCEPT ![b] = c]
         /\ ws' = [ws EXCEPT ![b] =
              [client |-> "open", app |-> "accepted", code |-> 0]]
         /\ mainPc' = [mainPc EXCEPT ![b] = "connecting"]
         /\ config' = [config EXCEPT ![b] =
              << [prompt |-> ctx.agent_prompt, greeting |-> ctx.greeting] >>]
  /\ UNCHANGED << settings, clientVars, storeVars, taskVars, dg, dg_inbox, flowVars, logVars >>

\* voice_websocket, up to the first suspension point of _handle_twilio_voice
VoiceWebsocket(c) ==
  /\ opened < MaxBridges
  /\ LET b == opened + 1
     IN  /\ opened' = b
         /\ call_id' = [call_id EXCEPT ![b] = c]
         /\ IF c \notin DOMAIN call_context
              THEN /\ ws' = [ws EXCEPT ![b] =
                          [client |-> "open", app |-> "closed", code |-> UNKNOWN_CALL_CODE]]
                   /\ mainPc' = [mainPc EXCEPT ![b] = "rejected"]
                   /\ UNCHANGED config
              ELSE /\ ws' = [ws EXCEPT ![b] =
                          [client |-> "open", app |-> "accepted", code |-> 0]]
                   /\ mainPc' = [mainPc EXCEPT ![b] = "connecting"]
                   /\ config' = [config EXCEPT ![b] =
                          << [prompt |-> call_context[c].agent_prompt,
                              greeting |-> call_context[c].greeting] >>]
  /\ UNCHANGED << settings, clientVars, storeVars, taskVars, dg, dg_inbox, flowVars, logVars >>

\* variant: a failure to reach the voice agent leaves the handler at once
DgConnectUncaught(b, outcome) ==
  /\ mainPc[b] = "connecting"
  /\ IF outcome = "ok"
       THEN /\ dg' = [dg EXCEPT ![b] = "open"]
            /\ recvPc' = [recvPc EXCEPT ![b] = "run"]
            /\ senderPc' = [senderPc EXCEPT ![b] = "run"]
            /\ receiverPc' = [receiverPc EXCEPT ![b] = "wait_sid"]
            /\ mainPc' = [mainPc EXCEPT ![b] = "gather"]
       ELSE /\ mainPc' = [mainPc EXCEPT ![b] = "escaped"]
            /\ UNCHANGED << dg, taskVars >>
  /\ UNCHANGED << settings, clientVars, storeVars, opened, call_id, ws, dg_inbox, config,
                  flowVars, logVars >>

\* websockets.connect and the Settings handshake; outcome: "ok", "refused"
\* (connect raises) or "handshake_failed" (dg_ws.send(config) raises)
DgConnect(b, outcome) ==
  /\ mainPc[b] = "connecting"
  /\ CASE outcome = "ok" ->
            /\ dg' = [dg EXCEPT ![b] = "open"]
            /\ recvPc' = [recvPc EXCEPT ![b] = "run"]
            /\ senderPc' = [senderPc EXCEPT ![b] = "run"]
            /\ receiverPc' = [receiverPc EXCEPT ![b] = "wait_sid"]
            /\ mainPc' = [mainPc EXCEPT ![b] = "gather"]
       [] outcome = "refused" ->
            /\ mainPc' = [mainPc EXCEPT ![b] = "finally"]
            /\ UNCHANGED << dg, taskVars >>
       [] OTHER ->
            /\ dg' = [dg EXCEPT ![b] = "closed"]
            /\ mainPc' = [mainPc EXCEPT ![b] = "finally"]
            /\ UNCHANGED taskVars
  /\ UNCHANGED << settings, clientVars, storeVars, opened, call_id, ws, dg_inbox, config,
                  flowVars, logVars >>

\* ------------------------------------------------------------- environment
\* the carrier hangs up / drops the media stream
CarrierDisconnect(b) ==
  /\ ws[b].client = "open"
  /\ ws[b].app = "accepted"
  /\ ws' = [ws EXCEPT ![b].client = "disconnected"]
  /\ UNCHANGED << settings, clientVars, storeVars, opened, call_id, mainPc, taskVars, dg,
                  dg_inbox, config, flowVars, logVars >>

\* the voice agent sends a message
AgentSend(b, m) ==
  /\ dg[b] = "open"
  /\ dg_inbox' = [dg_inbox EXCEPT ![b] = Append(@, m)]
  /\ UNCHANGED << settings, clientVars, storeVars, opened, call_id, mainPc, taskVars, ws, dg,
                  config, flowVars, logVars >>

\* the voice agent closes its connection: how = "closed_ok" (normal closure)
\* or "closed_err" (abnormal closure)
AgentClose(b, how) ==
  /\ dg[b] = "open"
  /\ dg' = [dg EXCEPT ![b] = how]
  /\ UNCHANGED << settings, clientVars, storeVars, opened, call_id, mainPc, taskVars, ws,
                  dg_inbox, config, flowVars, logVars >>


\* ------------------------------------------------- Flow 1: twilio_receiver
\* one iteration of the receive loop on carrier frame fr
TwilioReceiver(b, fr) ==
  /\ recvPc[b] = "run"
  /\ ws[b].client = "open"
  /\ ws[b].app = "accepted"
  /\ LET k == Len(frames_in[b]) + 1
         buf == IF fr.kind = "media" /\ fr.track = "inbound"
                  THEN ExtendBytes(inbuffer[b], k, fr.n)
                  ELSE inbuffer[b]
         \* stop breaks the loop; json.loads / b64decode raise into `except Exception`
         ends == fr.kind \in {"stop", "badjson", "badpayload"}
         chunks == DrainChunks(buf)
     IN  /\ frames_in' = [frames_in EXCEPT ![b] = Append(@, fr)]
         /\ streamsid_queue' =
              IF fr.kind = "start"
                THEN [streamsid_queue EXCEPT ![b] = Append(@, fr.sid)]
                ELSE streamsid_queue
         /\ IF ends
              THEN /\ audio_queue' = [audio_queue EXCEPT ![b] = Append(@, QNone)]
                   /\ recvPc' = [recvPc EXCEPT ![b] = "done"]
                   /\ UNCHANGED inbuffer
              ELSE /\ audio_queue' = [audio_queue EXCEPT ![b] =
                          @ \o [i \in 1..Len(chunks) |-> QChunk(chunks[i])]]
                   /\ inbuffer' = [inbuffer EXCEPT ![b] = DrainRest(buf)]
                   /\ UNCHANGED recvPc
  /\ UNCHANGED << settings, clientVars, storeVars, opened, call_id, mainPc, senderPc, receiverPc,
                  connVars, stream_sid, transcript, end_requested, msgs_in, dg_sent,
                  ws_sent >>

\* receive_text raises WebSocketDisconnect (the carrier is gone) or RuntimeError
\* (the websocket was closed by the bridge): the finally clause enqueues None
TwilioReceiverDisconnected(b) ==
  /\ recvPc[b] = "run"
  /\ ws[b].client = "disconnected" \/ ws[b].app = "closed"
  /\ audio_queue' = [audio_queue EXCEPT ![b] = Append(@, QNone)]
  /\ recvPc' = [recvPc EXCEPT ![b] = "done"]
  /\ UNCHANGED << settings, clientVars, storeVars, opened, call_id, mainPc, senderPc, receiverPc,
                  connVars, streamsid_queue, inbuffer, stream_sid, transcript,
                  end_requested, logVars >>

\* ----------------------------------------------------- Flow 2: sts_sender
\* variant: the sentinel is dequeued and the loop goes on
StsSenderSkipsSentinel(b) ==
  /\ senderPc[b] = "run"
  /\ audio_queue[b] # << >>
  /\ LET chunk == Head(audio_queue[b])
     IN  /\ audio_queue' = [audio_queue EXCEPT ![b] = Tail(@)]
         /\ IF chunk.kind = "none"
              THEN UNCHANGED << senderPc, dg_sent >>
              ELSE IF dg[b] = "open"
                THEN /\ dg_sent' = [dg_sent EXCEPT ![b] = Append(@, chunk.bytes)]
                     /\ UNCHANGED senderPc
                ELSE /\ senderPc' = [senderPc EXCEPT ![b] = "failed"]
                     /\ UNCHANGED dg_sent
  /\ UNCHANGED << settings, clientVars, storeVars, opened, call_id, mainPc, recvPc, receiverPc,
                  connVars, streamsid_queue, inbuffer, stream_sid, transcript,
                  end_requested, frames_in, msgs_in, ws_sent >>

\* one iteration: dequeue, stop on None, else write the chunk to dg_ws
StsSender(b) ==
  /\ senderPc[b] = "run"
  /\ audio_queue[b] # << >>
  /\ LET chunk == Head(audio_queue[b])
     IN  /\ audio_queue' = [audio_queue EXCEPT ![b] = Tail(@)]
         /\ IF chunk.kind = "none"
              THEN /\ senderPc' = [senderPc EXCEPT ![b] = "done"]
                   /\ UNCHANGED dg_sent
              ELSE IF dg[b] = "open"
                THEN /\ dg_sent' = [dg_sent EXCEPT ![b] = Append(@, chunk.bytes)]
                     /\ UNCHANGED senderPc
                ELSE \* dg_ws.send raises ConnectionClosed
                     /\ senderPc' = [senderPc EXCEPT ![b] = "failed"]
                     /\ UNCHANGED dg_sent
  /\ UNCHANGED << settings, clientVars, storeVars, opened, call_id, mainPc, recvPc, receiverPc,
                  connVars, streamsid_queue, inbuffer, stream_sid, transcript,
                  end_requested, frames_in, msgs_in, ws_sent >>

\* --------------------------------------------------- Flow 3: sts_receiver
\* variant: what the agent sent before the start frame is thrown away
StsReceiverGetSidDiscard(b) ==
  /\ receiverPc[b] = "wait_sid"
  /\ streamsid_queue[b] # << >>
  /\ stream_sid' = [stream_sid EXCEPT ![b] = Head(streamsid_queue[b])]
  /\ streamsid_queue' = [streamsid_queue EXCEPT ![b] = Tail(@)]
  /\ receiverPc' = [receiverPc EXCEPT ![b] = "run"]
  /\ dg_inbox' = [dg_inbox EXCEPT ![b] = << >>]
  /\ UNCHANGED << settings, clientVars, storeVars, opened, call_id, mainPc, recvPc, senderPc,
                  ws, dg, config, audio_queue, inbuffer, transcript, end_requested,
                  logVars >>

\* variant: the id of the latest start frame queued is taken
StsReceiverGetSidLatest(b) ==
  /\ receiverPc[b] = "wait_sid"
  /\ streamsid_queue[b] # << >>
  /\ stream_sid' = [stream_sid EXCEPT ![b] =
                      streamsid_queue[b][Len(streamsid_queue[b])]]
  /\ streamsid_queue' = [streamsid_queue EXCEPT ![b] = << >>]
  /\ receiverPc' = [receiverPc EXCEPT ![b] = "run"]
  /\ UNCHANGED << settings, clientVars, storeVars, opened, call_id, mainPc, recvPc, senderPc,
                  connVars, audio_queue, inbuffer, transcript, end_requested, logVars >>

\* stream_sid = await streamsid_queue.get()
StsReceiverGetSid(b) ==
  /\ receiverPc[b] = "wait_sid"
  /\ streamsid_queue[b] # << >>
  /\ stream_sid' = [stream_sid EXCEPT ![b] = Head(streamsid_queue[b])]
  /\ streamsid_queue' = [streamsid_queue EXCEPT ![b] = Tail(@)]
  /\ receiverPc' = [receiverPc EXCEPT ![b] = "run"]
  /\ UNCHANGED << settings, clientVars, storeVars, opened, call_id, mainPc, recvPc, senderPc,
                  connVars, audio_queue, inbuffer, transcript, end_requested, logVars >>

\* variant: the entry is put in front of the transcript
PrependEntry(tr, role, content) == << << role, content >> >> \o tr

\* transcript.append((role, content))
AppendEntry(tr, role, content) == Append(tr, << role, content >>)

\* variant: `if content`
KeepsEntryContentOnly(role, content) == content # << >>

\* `if role and content`
KeepsEntry(role, content) == role # "" /\ content # << >>

\* `if role == "user" and _is_goodbye(content)`
EndsCall(role, content) == role = "user" /\ IsGoodbye(content)

\* websocket.send_text / close on the carrier websocket of b may raise: never
\* while the carrier is connected, always once the bridge has closed it, and
\* either way once the carrier has dropped (the ASGI server decides)
MayRaise(b) ==
  IF ws[b].app = "closed" THEN {TRUE}
  ELSE IF ws[b].client = "disconnected" THEN {TRUE, FALSE}
  ELSE {FALSE}

\* one iteration of `async for message in dg_ws`
StsReceiver(b, raises) ==
  /\ receiverPc[b] = "run"
  /\ IF dg_inbox[b] = << >>
       THEN \* the iteration ends on a closed connection: normally after a
            \* normal closure, with ConnectionClosedError otherwise
            /\ dg[b] \in {"closed_ok", "closed_err", "closed"}
            /\ raises = FALSE
            /\ receiverPc' = [receiverPc EXCEPT ![b] =
                 IF dg[b] = "closed_err" THEN "raised" ELSE "done"]
            /\ UNCHANGED << dg_inbox, msgs_in, ws_sent, transcript, end_requested,
                            audio_queue >>
       ELSE LET m == Head(dg_inbox[b])
                live == ~end_requested[b]
                sends == live /\ m.kind \in {"binary", "UserStartedSpeaking"}
                out == IF m.kind = "binary" THEN MediaOut(stream_sid[b], m.id)
                       ELSE ClearOut(stream_sid[b])
                appends == live /\ m.kind = "ConversationText"
                             /\ KeepsEntry(m.role, m.content)
                goodbye == appends /\ EndsCall(m.role, m.content)
            IN  /\ raises \in (IF sends THEN MayRaise(b) ELSE {FALSE})
                /\ dg_inbox' = [dg_inbox EXCEPT ![b] = Tail(@)]
                /\ msgs_in' = [msgs_in EXCEPT ![b] = Append(@, m)]
                /\ ws_sent' = IF sends /\ ~raises /\ ws[b].client = "open"
                                THEN [ws_sent EXCEPT ![b] = Append(@, out)]
                                ELSE ws_sent
                /\ transcript' = IF appends
                                   THEN [transcript EXCEPT ![b] =
                                           AppendEntry(@, m.role, m.content)]
                                   ELSE transcript
                /\ end_requested' = IF goodbye
                                      THEN [end_requested EXCEPT ![b] = TRUE]
                                      ELSE end_requested
                /\ audio_queue' = IF goodbye
                                    THEN [audio_queue EXCEPT ![b] = Append(@, QNone)]
                                    ELSE audio_queue
                /\ receiverPc' = [receiverPc EXCEPT ![b] =
                     CASE ~live -> "done"
                       [] m.kind = "nonobject" -> "raised"
                       [] sends /\ raises -> "raised"
                       [] goodbye -> "closing"
                       [] OTHER -> "run"]
  /\ UNCHANGED << settings, clientVars, storeVars, opened, call_id, mainPc, recvPc, senderPc,
                  ws, dg, config, streamsid_queue, inbuffer, stream_sid, frames_in,
                  dg_sent >>

\* variant: the goodbye branch returns without closing the carrier websocket
StsReceiverReturn(b, raises) ==
  /\ receiverPc[b] = "closing"
  /\ raises = FALSE
  /\ receiverPc' = [receiverPc EXCEPT ![b] = "done"]
  /\ UNCHANGED << settings, clientVars, storeVars, opened, call_id, mainPc, recvPc, senderPc,
                  connVars, flowVars, logVars >>

\* variant: the goodbye branch closes the carrier websocket and keeps reading
StsReceiverContinue(b, raises) ==
  /\ receiverPc[b] = "closing"
  /\ raises \in MayRaise(b)
  /\ ws' = [ws EXCEPT ![b].app = "closed"]
  /\ receiverPc' = [receiverPc EXCEPT ![b] = IF raises THEN "raised" ELSE "run"]
  /\ UNCHANGED << settings, clientVars, storeVars, opened, call_id, mainPc, recvPc, senderPc,
                  dg, dg_inbox, config, flowVars, logVars >>

\* the goodbye branch resumes from `await websocket.close()` and returns
StsReceiverClose(b, raises) ==
  /\ receiverPc[b] = "closing"
  /\ raises \in MayRaise(b)
  /\ ws' = [ws EXCEPT ![b].app = "closed"]
  /\ receiverPc' = [receiverPc EXCEPT ![b] = IF raises THEN "raised" ELSE "done"]
  /\ UNCHANGED << settings, clientVars, storeVars, opened, call_id, mainPc, recvPc, senderPc,
                  dg, dg_inbox, config, flowVars, logVars >>

\* ------------------------------------------------ _handle_twilio_voice body
\* variant: gather returns and sender_task is left as it is
GatherDoneNoCancel(b) ==
  /\ mainPc[b] = "gather"
  /\ recvPc[b] = "done"
  /\ receiverPc[b] = "done"
  /\ dg' = [dg EXCEPT ![b] = IF @ = "open" THEN "closed" ELSE @]
  /\ mainPc' = [mainPc EXCEPT ![b] = "finally"]
  /\ UNCHANGED << settings, clientVars, storeVars, opened, call_id, taskVars, ws,
                  dg_inbox, config, flowVars, logVars >>

\* variant: the body waits for twilio_receiver only and leaves receiver_task
\* running
GatherDoneFirstCompleted(b) ==
  /\ mainPc[b] = "gather"
  /\ recvPc[b] = "done"
  /\ senderPc' = [senderPc EXCEPT ![b] = IF @ = "run" THEN "cancelled" ELSE @]
  /\ dg' = [dg EXCEPT ![b] = IF @ = "open" THEN "closed" ELSE @]
  /\ mainPc' = [mainPc EXCEPT ![b] = "finally"]
  /\ UNCHANGED << settings, clientVars, storeVars, opened, call_id, recvPc, receiverPc, ws,
                  dg_inbox, config, flowVars, logVars >>

\* gather(recv_task, receiver_task) returns; sender_task is cancelled and
\* awaited; the `async with` block closes dg_ws
GatherDone(b) ==
  /\ mainPc[b] = "gather"
  /\ recvPc[b] = "done"
  /\ receiverPc[b] = "done"
  /\ senderPc' = [senderPc EXCEPT ![b] = IF @ = "run" THEN "cancelled" ELSE @]
  /\ dg' = [dg EXCEPT ![b] = IF @ = "open" THEN "closed" ELSE @]
  /\ mainPc' = [mainPc EXCEPT ![b] = "finally"]
  /\ UNCHANGED << settings, clientVars, storeVars, opened, call_id, recvPc, receiverPc, ws,
                  dg_inbox, config, flowVars, logVars >>

\* gather re-raises the exception of receiver_task at once; the other tasks
\* are left running; the `async with` block closes dg_ws
GatherRaised(b) ==
  /\ mainPc[b] = "gather"
  /\ receiverPc[b] = "raised"
  /\ dg' = [dg EXCEPT ![b] = IF @ = "open" THEN "closed" ELSE @]
  /\ mainPc' = [mainPc EXCEPT ![b] = "finally"]
  /\ UNCHANGED << settings, clientVars, storeVars, opened, call_id, taskVars, ws, dg_inbox,
                  config, flowVars, logVars >>

\* finally: `await websocket.close()`, any exception swallowed
FinallyClose(b) ==
  /\ mainPc[b] = "finally"
  /\ ws' = [ws EXCEPT ![b].app = "closed"]
  /\ mainPc' = [mainPc EXCEPT ![b] = "record"]
  /\ UNCHANGED << settings, clientVars, storeVars, opened, call_id, taskVars, dg, dg_inbox,
                  config, flowVars, logVars >>

\* variant: the writer is handed the entries newest first
WriteTranscriptReversed(files, tr, t) ==
  Put(files, t, TranscriptFileText([i \in 1..Len(tr) |-> tr[Len(tr) + 1 - i]]))

\* _write_transcript, when it succeeds at wall-clock second t
WriteTranscript(files, tr, t) == Put(files, t, TranscriptFileText(tr))

\* finally, after the close: the record is stored, the transcript persisted if
\* it is not empty (writerOk: _write_transcript does not raise; t: the second
\* it reads from the clock) and the registry entry removed
WriteRecord(b, writerOk, t) ==
  /\ mainPc[b] = "record"
  /\ LET c == call_id[b]
         tr == transcript[b]
     IN  /\ completed_calls' = Put(completed_calls, c, CompletedRecord(tr))
         /\ IF tr = << >>
              THEN /\ writerOk
                   /\ t = now
                   /\ call_context' = Remove(call_context, c)
                   /\ mainPc' = [mainPc EXCEPT ![b] = "done"]
                   /\ UNCHANGED << transcript_files, now >>
              ELSE /\ t \in now..MaxTime
                   /\ now' = t
                   /\ IF writerOk
                        THEN /\ transcript_files' = WriteTranscript(transcript_files, tr, t)
                             /\ call_context' = Remove(call_context, c)
                             /\ mainPc' = [mainPc EXCEPT ![b] = "done"]
                        ELSE \* the exception leaves the finally block
                             /\ mainPc' = [mainPc EXCEPT ![b] = "escaped"]
                             /\ UNCHANGED << transcript_files, call_context >>
  /\ UNCHANGED << settings, clientVars, minted, last_initiate, opened, call_id, taskVars,
                  connVars, flowVars, logVars >>

\* ------------------------------------------------------ call-control responder
\* the text of a call id as it appears in a URL path
DigitChars == << "0", "1", "2", "3", "4", "5", "6", "7", "8", "9" >>
CallIdText(c) == << "i", "d", DigitChars[c + 1] >>

\* f"/api/voice/ws/{call_id}"
StreamPath(c) ==
  << "/", "a", "p", "i", "/", "v", "o", "i", "c", "e", "/", "w", "s", "/" >>
    \o CallIdText(c)

HttpsPrefix == << "h", "t", "t", "p", "s", ":", "/", "/" >>
HttpPrefix == << "h", "t", "t", "p", ":", "/", "/" >>
WssPrefix == << "w", "s", "s", ":", "/", "/" >>
WsPrefix == << "w", "s", ":", "/", "/" >>

\* variant: the stream URL does not name the call
WssUrlNoCallId(base_url, c) ==
  IF StartsWith(base_url, HttpsPrefix)
    THEN WssPrefix \o SubSeq(base_url, Len(HttpsPrefix) + 1, Len(base_url))
  ELSE IF StartsWith(base_url, HttpPrefix)
    THEN WsPrefix \o SubSeq(base_url, Len(HttpPrefix) + 1, Len(base_url))
  ELSE WssPrefix \o base_url

\* _wss_url
WssUrl(base_url, c) ==
  IF StartsWith(base_url, HttpsPrefix)
    THEN WssPrefix \o SubSeq(base_url, Len(HttpsPrefix) + 1, Len(base_url))
           \o StreamPath(c)
  ELSE IF StartsWith(base_url, HttpPrefix)
    THEN WsPrefix \o SubSeq(base_url, Len(HttpPrefix) + 1, Len(base_url))
           \o StreamPath(c)
  ELSE WssPrefix \o base_url \o StreamPath(c)

\* twiml_webhook: the markup connects the call to the stream URL of call c,
\* whether or not c is registered
TwimlWebhook(c) ==
  /\ last_twiml' =
       [status |-> 200,
        stream_url |-> WssUrl(RStrip(settings.server_base_url, "/"), c)]
  /\ UNCHANGED << settings, storeVars, opened, call_id, mainPc, taskVars,
                  connVars, flowVars, logVars, poller >>

\* ------------------------------------------------------------------- polling
\* poll_for_transcript is called for call c with a timeout in seconds
PollStart(c, timeout) ==
  /\ poller.pc = "idle"
  /\ poller' = [NoPoll EXCEPT !.pc = "polling", !.call_id = c,
                              !.timeout = timeout, !.interval = POLL_INTERVAL]
  /\ UNCHANGED << settings, storeVars, opened, call_id, mainPc, taskVars,
                  connVars, flowVars, logVars, last_twiml >>

\* variant: _poll_call, which does not stop on 'unknown'
PollIterationNoUnknown(getOk) ==
  /\ poller.pc = "polling"
  /\ IF poller.elapsed < poller.timeout
       THEN LET elapsed == poller.elapsed + poller.interval
                data == GetCallResult(poller.call_id)
                status == IF getOk THEN data.status ELSE "error"
            IN  poller' =
                  IF status = "completed"
                    THEN [poller EXCEPT !.pc = "returned", !.elapsed = elapsed,
                                        !.polls = @ + 1, !.last = status,
                                        !.result = data]
                  ELSE [poller EXCEPT !.elapsed = elapsed, !.polls = @ + 1,
                                      !.last = status,
                                      !.interval = IF elapsed > SLOW_AFTER
                                                     THEN SLOW_INTERVAL ELSE @]
       ELSE poller' = [poller EXCEPT !.pc = "returned",
                         !.result = [status |-> "timeout", transcript_text |-> << >>]]
  /\ UNCHANGED << settings, storeVars, opened, call_id, mainPc, taskVars,
                  connVars, flowVars, logVars, last_twiml >>

\* one evaluation of the loop condition of poll_for_transcript and, while the
\* time is not up, one iteration: sleep, GET and the tests on its answer
\* (getOk: the request returns a JSON object; otherwise it raises)
PollIteration(getOk) ==
  /\ poller.pc = "polling"
  /\ IF poller.elapsed < poller.timeout
       THEN LET elapsed == poller.elapsed + poller.interval
                data == GetCallResult(poller.call_id)
                status == IF getOk THEN data.status ELSE "error"
            IN  poller' =
                  IF status = "completed"
                    THEN [poller EXCEPT !.pc = "returned", !.elapsed = elapsed,
                                        !.polls = @ + 1, !.last = status,
                                        !.result = data]
                  ELSE IF status = "unknown"
                    THEN [poller EXCEPT !.pc = "returned", !.elapsed = elapsed,
                                        !.polls = @ + 1, !.last = status,
                                        !.result = [status |-> "unknown",
                                                    transcript_text |-> << >>]]
                  ELSE [poller EXCEPT !.elapsed = elapsed, !.polls = @ + 1,
                                      !.last = status,
                                      !.interval = IF elapsed > SLOW_AFTER
                                                     THEN SLOW_INTERVAL ELSE @]
       ELSE poller' = [poller EXCEPT !.pc = "returned",
                         !.result = [status |-> "timeout", transcript_text |-> << >>]]
  /\ UNCHANGED << settings, storeVars, opened, call_id, mainPc, taskVars,
                  connVars, flowVars, logVars, last_twiml >>

\* ------------------------------------------- the standalone bridge (script.py)
\* the phrases of script.py's _is_goodbye
ScriptGoodbyePhrases ==
  << << "b", "y", "e" >>,
     << "g", "o", "o", "d", "b", "y", "e" >>,
     << "g", "o", "o", "d", " ", "b", "y", "e" >>,
     << "g", "o", "o", "d", "-", "b", "y" >>,
     << "b", "y", "e", " ", "b", "y", "e" >>,
     << "g", "o", "t", "t", "a", " ", "g", "o" >>,
     << "h", "a", "v", "e", " ", "t", "o", " ", "g", "o" >> >>

\* script.py's _is_goodbye
ScriptIsGoodbye(text) ==
  IF text = << >> THEN FALSE
  ELSE LET t == Strip(Lower(text))
       IN  \E p \in 1..Len(ScriptGoodbyePhrases) : Contains(t, ScriptGoodbyePhrases[p])

\* the fixed instruction text and opening line of the standalone script, cut
\* to their first words
AGENT_PROMPT == << "Y", "o", "u", " ", "a", "r", "e" >>
GREETING == << "H", "i", "," >>

\* ws.send_str on the carrier websocket of b raises ConnectionResetError once
\* the bridge has closed it; once the carrier has dropped it raises or not
\* (the transport decides)
ScriptMayRaise(b) ==
  IF ws[b].app = "closed" THEN {TRUE}
  ELSE IF ws[b].client = "disconnected" THEN {TRUE, FALSE}
  ELSE {FALSE}

\* websockets.connect and the Settings handshake of handle_twilio_voice
ScriptDgConnect(b, outcome) ==
  /\ mainPc[b] = "connecting"
  /\ CASE outcome = "ok" ->
            /\ dg' = [dg EXCEPT ![b] = "open"]
            /\ recvPc' = [recvPc EXCEPT ![b] = "run"]
            /\ senderPc' = [senderPc EXCEPT ![b] = "run"]
            /\ receiverPc' = [receiverPc EXCEPT ![b] = "wait_sid"]
            /\ mainPc' = [mainPc EXCEPT ![b] = "gather"]
       [] outcome = "refused" ->
            /\ mainPc' = [mainPc EXCEPT ![b] = "finally"]
            /\ UNCHANGED << dg, taskVars >>
       [] OTHER ->
            /\ dg' = [dg EXCEPT ![b] = "closed"]
            /\ mainPc' = [mainPc EXCEPT ![b] = "finally"]
            /\ UNCHANGED taskVars
  /\ UNCHANGED << settings, clientVars, storeVars, opened, call_id, ws, dg_inbox, config,
                  flowVars, logVars >>

\* one iteration of `async for msg in ws` on carrier text frame fr
ScriptTwilioReceiver(b, fr) ==
  /\ recvPc[b] = "run"
  /\ ws[b].client = "open"
  /\ ws[b].app = "accepted"
  /\ LET k == Len(frames_in[b]) + 1
         buf == IF fr.kind = "media" /\ fr.track = "inbound"
                  THEN ExtendBytes(inbuffer[b], k, fr.n)
                  ELSE inbuffer[b]
         chunks == DrainChunks(buf)
     IN  /\ frames_in' = [frames_in EXCEPT ![b] = Append(@, fr)]
         /\ streamsid_queue' =
              IF fr.kind = "start"
                THEN [streamsid_queue EXCEPT ![b] = Append(@, fr.sid)]
                ELSE streamsid_queue
         /\ CASE fr.kind = "stop" ->
                   \* break, then the put after the loop
                   /\ audio_queue' = [audio_queue EXCEPT ![b] = Append(@, QNone)]
                   /\ recvPc' = [recvPc EXCEPT ![b] = "done"]
                   /\ UNCHANGED inbuffer
              [] fr.kind = "badjson" ->
                   \* json.JSONDecodeError is caught inside the loop
                   UNCHANGED << audio_queue, inbuffer, recvPc >>
              [] fr.kind = "badpayload" ->
                   \* binascii.Error is not caught: it leaves the task
                   /\ recvPc' = [recvPc EXCEPT ![b] = "raised"]
                   /\ UNCHANGED << audio_queue, inbuffer >>
              [] OTHER ->
                   /\ audio_queue' = [audio_queue EXCEPT ![b] =
                          @ \o [i \in 1..Len(chunks) |-> QChunk(chunks[i])]]
                   /\ inbuffer' = [inbuffer EXCEPT ![b] = DrainRest(buf)]
                   /\ UNCHANGED recvPc
  /\ UNCHANGED << settings, clientVars, storeVars, opened, call_id, mainPc, senderPc, receiverPc,
                  connVars, stream_sid, transcript, end_requested, msgs_in, dg_sent,
                  ws_sent >>

\* the iteration over ws ends (the carrier is gone or the websocket was closed
\* by the bridge) and None is enqueued after the loop
ScriptTwilioReceiverClosed(b) ==
  /\ recvPc[b] = "run"
  /\ ws[b].client = "disconnected" \/ ws[b].app = "closed"
  /\ audio_queue' = [audio_queue EXCEPT ![b] = Append(@, QNone)]
  /\ recvPc' = [recvPc EXCEPT ![b] = "done"]
  /\ UNCHANGED << settings, clientVars, storeVars, opened, call_id, mainPc, senderPc, receiverPc,
                  connVars, streamsid_queue, inbuffer, stream_sid, transcript,
                  end_requested, logVars >>

\* one iteration of script.py's sts_sender
ScriptStsSender(b) ==
  /\ senderPc[b] = "run"
  /\ audio_queue[b] # << >>
  /\ LET chunk == Head(audio_queue[b])
     IN  /\ audio_queue' = [audio_queue EXCEPT ![b] = Tail(@)]
         /\ IF chunk.kind = "none"
              THEN /\ senderPc' = [senderPc EXCEPT ![b] = "done"]
                   /\ UNCHANGED dg_sent
              ELSE IF dg[b] = "open"
                THEN /\ dg_sent' = [dg_sent EXCEPT ![b] = Append(@, chunk.bytes)]
                     /\ UNCHANGED senderPc
                ELSE /\ senderPc' = [senderPc EXCEPT ![b] = "failed"]
                     /\ UNCHANGED dg_sent
  /\ UNCHANGED << settings, clientVars, storeVars, opened, call_id, mainPc, recvPc, receiverPc,
                  connVars, streamsid_queue, inbuffer, stream_sid, transcript,
                  end_requested, frames_in, msgs_in, ws_sent >>

\* script.py's sts_receiver: stream_sid = await streamsid_queue.get()
ScriptStsReceiverGetSid(b) ==
  /\ receiverPc[b] = "wait_sid"
  /\ streamsid_queue[b] # << >>
  /\ stream_sid' = [stream_sid EXCEPT ![b] = Head(streamsid_queue[b])]
  /\ streamsid_queue' = [streamsid_queue EXCEPT ![b] = Tail(@)]
  /\ receiverPc' = [receiverPc EXCEPT ![b] = "run"]
  /\ UNCHANGED << settings, clientVars, storeVars, opened, call_id, mainPc, recvPc, senderPc,
                  connVars, audio_queue, inbuffer, transcript, end_requested, logVars >>

\* one iteration of `async for message in dg_ws` of script.py's sts_receiver
ScriptStsReceiver(b, raises) ==
  /\ receiverPc[b] = "run"
  /\ IF dg_inbox[b] = << >>
       THEN /\ dg[b] \in {"closed_ok", "closed_err", "closed"}
            /\ raises = FALSE
            /\ receiverPc' = [receiverPc EXCEPT ![b] =
                 IF dg[b] = "closed_err" THEN "raised" ELSE "done"]
            /\ UNCHANGED << dg_inbox, msgs_in, ws_sent, transcript, end_requested,
                            audio_queue >>
       ELSE LET m == Head(dg_inbox[b])
                live == ~end_requested[b]
                sends == live /\ m.kind \in {"binary", "UserStartedSpeaking"}
                out == IF m.kind = "binary" THEN MediaOut(stream_sid[b], m.id)
                       ELSE ClearOut(stream_sid[b])
                appends == live /\ m.kind = "ConversationText"
                             /\ m.role # "" /\ m.content # << >>
                goodbye == appends /\ m.role = "user" /\ ScriptIsGoodbye(m.content)
            IN  /\ raises \in (IF sends THEN ScriptMayRaise(b) ELSE {FALSE})
                /\ dg_inbox' = [dg_inbox EXCEPT ![b] = Tail(@)]
                /\ msgs_in' = [msgs_in EXCEPT ![b] = Append(@, m)]
                /\ ws_sent' = IF sends /\ ~raises /\ ws[b].client = "open"
                                THEN [ws_sent EXCEPT ![b] = Append(@, out)]
                                ELSE ws_sent
                /\ transcript' = IF appends
                                   THEN [transcript EXCEPT ![b] =
                                           Append(@, << m.role, m.content >>)]
                                   ELSE transcript
                /\ end_requested' = IF goodbye
                                      THEN [end_requested EXCEPT ![b] = TRUE]
                                      ELSE end_requested
                /\ audio_queue' = IF goodbye
                                    THEN [audio_queue EXCEPT ![b] = Append(@, QNone)]
                                    ELSE audio_queue
                /\ receiverPc' = [receiverPc EXCEPT ![b] =
                     CASE ~live -> "done"
                       [] m.kind = "nonobject" -> "raised"
                       [] sends /\ raises -> "raised"
                       [] goodbye -> "closing"
                       [] OTHER -> "run"]
  /\ UNCHANGED << settings, clientVars, storeVars, opened, call_id, mainPc, recvPc, senderPc,
                  ws, dg, config, streamsid_queue, inbuffer, stream_sid, frames_in,
                  dg_sent >>

\* the goodbye branch resumes from `await ws.close()`, which swallows what the
\* transport raises, and breaks
ScriptStsReceiverClose(b) ==
  /\ receiverPc[b] = "closing"
  /\ ws' = [ws EXCEPT ![b].app = "closed"]
  /\ receiverPc' = [receiverPc EXCEPT ![b] = "done"]
  /\ UNCHANGED << settings, clientVars, storeVars, opened, call_id, mainPc, recvPc, senderPc,
                  dg, dg_inbox, config, flowVars, logVars >>

\* gather(recv_task, receiver_task) returns; sender_task is cancelled and
\* awaited; the `async with` block closes dg_ws
ScriptGatherDone(b) ==
  /\ mainPc[b] = "gather"
  /\ recvPc[b] = "done"
  /\ receiverPc[b] = "done"
  /\ senderPc' = [senderPc EXCEPT ![b] = IF @ = "run" THEN "cancelled" ELSE @]
  /\ dg' = [dg EXCEPT ![b] = IF @ = "open" THEN "closed" ELSE @]
  /\ mainPc' = [mainPc EXCEPT ![b] = "finally"]
  /\ UNCHANGED << settings, clientVars, storeVars, opened, call_id, recvPc, receiverPc, ws,
                  dg_inbox, config, flowVars, logVars >>

\* gather re-raises the exception of recv_task or of receiver_task at once;
\* the other tasks are left running; the `async with` block closes dg_ws
ScriptGatherRaised(b) ==
  /\ mainPc[b] = "gather"
  /\ recvPc[b] = "raised" \/ receiverPc[b] = "raised"
  /\ dg' = [dg EXCEPT ![b] = IF @ = "open" THEN "closed" ELSE @]
  /\ mainPc' = [mainPc EXCEPT ![b] = "finally"]
  /\ UNCHANGED << settings, clientVars, storeVars, opened, call_id, taskVars, ws, dg_inbox,
                  config, flowVars, logVars >>

\* finally: `await ws.close()`
ScriptFinallyClose(b) ==
  /\ mainPc[b] = "finally"
  /\ ws' = [ws EXCEPT ![b].app = "closed"]
  /\ mainPc' = [mainPc EXCEPT ![b] = "record"]
  /\ UNCHANGED << settings, clientVars, storeVars, opened, call_id, taskVars, dg, dg_inbox,
                  config, flowVars, logVars >>

\* script.py's _write_transcript, when it succeeds at wall-clock second t
ScriptWriteTranscript(files, tr, t) ==
  Put(files, t,
      Concat([i \in 1..Len(tr) |->
        (IF tr[i][1] = "user" THEN UserLabel ELSE AgentLabel) \o << ":", " " >> \o tr[i][2]
          \o << "\n", "\n" >>]))

\* finally, after the close: the transcript is persisted if it is not empty;
\* no record is stored and there is no registry
ScriptPersist(b, writerOk, t) ==
  /\ mainPc[b] = "record"
  /\ IF transcript[b] = << >>
       THEN /\ writerOk
            /\ t = now
            /\ mainPc' = [mainPc EXCEPT ![b] = "done"]
            /\ UNCHANGED << transcript_files, now >>
       ELSE /\ t \in now..MaxTime
            /\ now' = t
            /\ IF writerOk
                 THEN /\ transcript_files' =
                           ScriptWriteTranscript(transcript_files, transcript[b], t)
                      /\ mainPc' = [mainPc EXCEPT ![b] = "done"]
                 ELSE /\ mainPc' = [mainPc EXCEPT ![b] = "escaped"]
                      /\ UNCHANGED transcript_files
  /\ UNCHANGED << settings, clientVars, call_context, completed_calls, minted, last_initiate,
                  opened, call_id, taskVars, connVars, flowVars, logVars >>

\* ------------------------------------------------------------ specification
\* the steps the event loop takes for connection b on its own; oks and times
\* are the outcomes of _write_transcript and the clock readings considered
BridgeStep(b, oks, times) ==
  \/ \E o \in {"ok", "refused", "handshake_failed"} : DgConnect(b, o)
  \/ TwilioReceiverDisconnected(b)
  \/ StsSender(b)
  \/ StsReceiverGetSid(b)
  \/ \E r \in BOOLEAN : StsReceiver(b, r)
  \/ \E r \in BOOLEAN : StsReceiverClose(b, r)
  \/ GatherDone(b)
  \/ GatherRaised(b)
  \/ FinallyClose(b)
  \/ \E ok \in oks, t \in times : WriteRecord(b, ok, t)

\* the carrier sends one of `frames`, at most maxF in a run
CarrierSends(b, frames, maxF) ==
  /\ FramesConsumed < maxF
  /\ \E fr \in frames : TwilioReceiver(b, fr)

\* the agent sends one of `msgs`, at most maxM in a run
AgentSends(b, msgs, maxM) ==
  /\ MsgsSent < maxM
  /\ Len(dg_inbox[b]) < MaxInFlight
  /\ \E m \in msgs : AgentSend(b, m)

\* the whole service: calls are initiated, media streams connect for any call
\* id, bridges run side by side; the peers send a start or a stop frame and an
\* agent line or a farewell of the human party
SysFrames(b) == {fr \in CarrierFrames(b) : fr.kind \in {"start", "stop"}}
SysPrompts == { << "a", "s", "k" >> }
\* the farewell of the human party
ByeMsg ==
  ConversationTextMsg("user",
    << "T", "h", "a", "n", "k", "s", ",", " ", "B", "y", "e", "!" >>)
\* a line of the agent
AgentLineMsg == ConversationTextMsg("agent", << "h", "i" >>)
SysMsgs == {AgentLineMsg, ByeMsg}

Next ==
  \/ \E p \in SysPrompts, g \in Greetings, o \in {"ok", "rejected", "error"} :
       InitiateCall(p, g, o)
  \/ \E c \in StreamCallIds : VoiceWebsocket(c)
  \/ \E b \in Bridges : CarrierDisconnect(b)
  \/ \E b \in Bridges, how \in {"closed_ok", "closed_err"} : AgentClose(b, how)
  \/ \E b \in Bridges : CarrierSends(b, SysFrames(b), MaxFrames)
  \/ \E b \in Bridges : AgentSends(b, SysMsgs, MaxMsgs)
  \/ \E b \in Bridges : BridgeStep(b, BOOLEAN, 0..MaxTime)

Spec == Init /\ [][Next]_vars

\* the state after one successful initiate_call, before any media stream
RegisteredEntry ==
  [agent_prompt |-> AugmentPrompt(<< "a", "s", "k" >>), greeting |-> << "H", "i" >>]

InitRegistered ==
  /\ settings = AllSetSettings
  /\ call_context = Put(NoFunction, 1, RegisteredEntry)
  /\ completed_calls = NoFunction
  /\ minted = 1
  /\ last_initiate = [status |-> "initiating", call_id |-> 1]
  /\ transcript_files = NoFunction
  /\ now = 0
  /\ InitBridges
  /\ InitClient

\* one bridge on the registered call, every carrier frame considered; the
\* agent says nothing but may relay the farewell of the human party
AudioNext ==
  \/ opened = 0 /\ VoiceWebsocket(1)
  \/ CarrierDisconnect(1)
  \/ \E how \in {"closed_ok", "closed_err"} : AgentClose(1, how)
  \/ CarrierSends(1, CarrierFrames(1), AudioFrames)
  \/ AgentSends(1, {ByeMsg}, AudioMsgs)
  \/ BridgeStep(1, BOOLEAN, {0})

AudioSpec == InitRegistered /\ [][AudioNext]_vars

\* one bridge on the registered call, every agent message considered; the
\* carrier sends a start frame, a stop frame or two chunks of audio
TextFrameSet(b) ==
  {fr \in CarrierFrames(b) : fr.kind \in {"start", "stop"}}
    \cup {MediaFrame("inbound", 6400)}

TextNext ==
  \/ opened = 0 /\ VoiceWebsocket(1)
  \/ CarrierDisconnect(1)
  \/ \E how \in {"closed_ok", "closed_err"} : AgentClose(1, how)
  \/ CarrierSends(1, TextFrameSet(1), TextFrames)
  \/ AgentSends(1, AgentMsgs(1), TextMsgs)
  \/ BridgeStep(1, BOOLEAN, {0})

TextSpec == InitRegistered /\ [][TextNext]_vars

\* the event loop runs a task that can take a step; the peers owe nothing
Fairness(b) == WF_vars(BridgeStep(b, BOOLEAN, {0}))

\* one bridge on the registered call whose agent relays an agent line or the
\* farewell of the human party; the carrier as in TextSpec
GoodbyeNext ==
  \/ opened = 0 /\ VoiceWebsocket(1)
  \/ CarrierDisconnect(1)
  \/ \E how \in {"closed_ok", "closed_err"} : AgentClose(1, how)
  \/ CarrierSends(1, TextFrameSet(1), TextFrames)
  \/ AgentSends(1, SysMsgs, TextMsgs)
  \/ BridgeStep(1, BOOLEAN, {0})

GoodbyeSpec == InitRegistered /\ [][GoodbyeNext]_vars /\ Fairness(1)


\* the request side of the service: calls are initiated with any prompt and
\* media streams connect for any call id, while the voice agent cannot be
\* reached, so that every bridge ends at once with an empty transcript
InitiateNext ==
  \/ \E p \in Prompts, g \in Greetings, o \in {"ok", "rejected", "error"} :
       InitiateCall(p, g, o)
  \/ \E c \in StreamCallIds : VoiceWebsocket(c)
  \/ \E b \in Bridges : DgConnect(b, "refused")
  \/ \E b \in Bridges : FinallyClose(b)
  \/ \E b \in Bridges : WriteRecord(b, TRUE, now)

InitiateSpec == Init /\ [][InitiateNext]_vars


\* two calls are registered and a media stream connects for each of them,
\* in either order or twice for the same call; the peers as in Next
InitTwoRegistered ==
  /\ settings = AllSetSettings
  /\ call_context = Put(Put(NoFunction, 1, RegisteredEntry), 2, RegisteredEntry)
  /\ completed_calls = NoFunction
  /\ minted = 2
  /\ last_initiate = [status |-> "initiating", call_id |-> 2]
  /\ transcript_files = NoFunction
  /\ now = 0
  /\ InitBridges
  /\ InitClient

TwoCallsNext ==
  \/ \E c \in 1..2 : VoiceWebsocket(c)
  \/ \E b \in Bridges : CarrierDisconnect(b)
  \/ \E b \in Bridges, how \in {"closed_ok", "closed_err"} : AgentClose(b, how)
  \/ \E b \in Bridges : CarrierSends(b, SysFrames(b), MaxFrames)
  \/ \E b \in Bridges : AgentSends(b, SysMsgs, MaxMsgs)
  \/ \E b \in Bridges : BridgeStep(b, BOOLEAN, {0})

TwoCallsSpec == InitTwoRegistered /\ [][TwoCallsNext]_vars


\* two calls are registered and one media stream connects for each of them;
\* each carrier sends its start frame and each agent a line, and the two
\* bridges read the clock within the same second or one second apart
WriterFrames == 2
WriterMsgs == 2

WriterNext ==
  \/ \E c \in 1..2 : opened = c - 1 /\ VoiceWebsocket(c)
  \/ \E b \in Bridges : CarrierDisconnect(b)
  \/ \E b \in Bridges, how \in {"closed_ok", "closed_err"} : AgentClose(b, how)
  \/ \E b \in Bridges :
       /\ frames_in[b] = << >>
       /\ CarrierSends(b, {fr \in CarrierFrames(b) : fr.kind = "start"}, WriterFrames)
  \/ \E b \in Bridges :
       /\ msgs_in[b] \o dg_inbox[b] = << >>
       /\ AgentSends(b, SysMsgs, WriterMsgs)
  \/ \E b \in Bridges : BridgeStep(b, BOOLEAN, 0..MaxTime)

WriterSpec == InitTwoRegistered /\ [][WriterNext]_vars


\* the request side of the service with its call-control responder; the
\* public base URL may also be an https one
HttpsBase == << "h", "t", "t", "p", "s", ":", "/", "/", "x" >>

InitResponder ==
  /\ settings \in SettingsSet
                    \cup {[AllSetSettings EXCEPT !.server_base_url = HttpsBase]}
  /\ call_context = NoFunction
  /\ completed_calls = NoFunction
  /\ minted = 0
  /\ last_initiate = [status |-> "none", call_id |-> 0]
  /\ transcript_files = NoFunction
  /\ now = 0
  /\ InitBridges
  /\ InitClient

ResponderNext ==
  \/ \E p \in SysPrompts, g \in Greetings, o \in {"ok", "rejected", "error"} :
       InitiateCall(p, g, o)
  \/ \E c \in StreamCallIds : TwimlWebhook(c)
  \/ \E c \in StreamCallIds : VoiceWebsocket(c)
  \/ \E b \in Bridges : DgConnect(b, "refused")
  \/ \E b \in Bridges : FinallyClose(b)
  \/ \E b \in Bridges : WriteRecord(b, TRUE, now)

ResponderSpec == InitResponder /\ [][ResponderNext]_vars


\* a caller polls for the registered call or for a call that was never
\* registered while a media stream of the registered call connects, the
\* voice agent cannot be reached and the bridge completes
MaxTimeout == 41
PollTimeouts == {1, 7, MaxTimeout}

PollNext ==
  \/ \E c \in StreamCallIds, timeout \in PollTimeouts : PollStart(c, timeout)
  \/ \E getOk \in BOOLEAN : PollIteration(getOk)
  \/ opened = 0 /\ VoiceWebsocket(1)
  \/ \E b \in Bridges : DgConnect(b, "refused")
  \/ \E b \in Bridges : FinallyClose(b)
  \/ \E b \in Bridges : WriteRecord(b, TRUE, now)

\* asyncio.sleep returns and the GET returns or raises within its own timeout
PollFairness == WF_vars(\E getOk \in BOOLEAN : PollIteration(getOk))

PollSpec == InitRegistered /\ [][PollNext]_vars /\ PollFairness


\* the standalone bridge on one media stream: ws_voice_handler has prepared
\* the websocket and handle_twilio_voice has built its Settings message; the
\* carrier sends any frame, the agent a line, a piece of audio or the farewell
\* of the human party
ScriptFrames == 3
ScriptMsgs == 1

InitScript ==
  /\ settings = AllSetSettings
  /\ call_context = NoFunction
  /\ completed_calls = NoFunction
  /\ minted = 0
  /\ last_initiate = [status |-> "none", call_id |-> 0]
  /\ transcript_files = NoFunction
  /\ now = 0
  /\ opened = 1
  /\ call_id = [b \in Bridges |-> 0]
  /\ mainPc = [b \in Bridges |-> IF b = 1 THEN "connecting" ELSE "none"]
  /\ recvPc = [b \in Bridges |-> "none"]
  /\ senderPc = [b \in Bridges |-> "none"]
  /\ receiverPc = [b \in Bridges |-> "none"]
  /\ ws = [b \in Bridges |->
             IF b = 1 THEN [client |-> "open", app |-> "accepted", code |-> 0]
             ELSE [client |-> "none", app |-> "none", code |-> 0]]
  /\ dg = [b \in Bridges |-> "none"]
  /\ dg_inbox = [b \in Bridges |-> << >>]
  /\ config = [b \in Bridges |->
                 IF b = 1 THEN << [prompt |-> AGENT_PROMPT, greeting |-> GREETING] >>
                 ELSE << >>]
  /\ audio_queue = [b \in Bridges |-> << >>]
  /\ streamsid_queue = [b \in Bridges |-> << >>]
  /\ inbuffer = [b \in Bridges |-> << >>]
  /\ stream_sid = [b \in Bridges |-> "unset"]
  /\ transcript = [b \in Bridges |-> << >>]
  /\ end_requested = [b \in Bridges |-> FALSE]
  /\ frames_in = [b \in Bridges |-> << >>]
  /\ msgs_in = [b \in Bridges |-> << >>]
  /\ dg_sent = [b \in Bridges |-> << >>]
  /\ ws_sent = [b \in Bridges |-> << >>]
  /\ InitClient

ScriptAgentMsgs == {AgentLineMsg, ByeMsg, BinaryMsg(1)}

ScriptNext ==
  \/ CarrierDisconnect(1)
  \/ \E how \in {"closed_ok", "closed_err"} : AgentClose(1, how)
  \/ FramesConsumed < ScriptFrames /\ \E fr \in CarrierFrames(1) : ScriptTwilioReceiver(1, fr)
  \/ AgentSends(1, ScriptAgentMsgs, ScriptMsgs)
  \/ \E o \in {"ok", "refused", "handshake_failed"} : ScriptDgConnect(1, o)
  \/ ScriptTwilioReceiverClosed(1)
  \/ ScriptStsSender(1)
  \/ ScriptStsReceiverGetSid(1)
  \/ \E r \in BOOLEAN : ScriptStsReceiver(1, r)
  \/ ScriptStsReceiverClose(1)
  \/ ScriptGatherDone(1)
  \/ ScriptGatherRaised(1)
  \/ ScriptFinallyClose(1)
  \/ \E ok \in BOOLEAN : ScriptPersist(1, ok, 0)

ScriptSpec == InitScript /\ [][ScriptNext]_vars


\* ================================================================= claims
IsPrefix(a, c) == Len(a) <= Len(c) /\ SubSeq(c, 1, Len(a)) = a

\* the conversation-text events among the messages read so far
ConvEvents(log) == SelectSeq(log, LAMBDA m : m.kind = "ConversationText")
\* those of them that carry a role and an utterance
FullConvEvents(log) ==
  SelectSeq(log, LAMBDA m : m.kind = "ConversationText" /\ m.role # ""
                              /\ m.content # << >>)
RolePairs(events) == [i \in 1..Len(events) |-> << events[i].role, events[i].content >>]

\* some event loop step of connection b can be taken without a peer acting
CanStep(b) == ENABLED BridgeStep(b, BOOLEAN, 0..MaxTime)

HasRecord(b) == call_id[b] \in DOMAIN completed_calls
Ended(b) == mainPc[b] \in {"done", "escaped"}
StartSeen(b) == \E i \in 1..Len(frames_in[b]) : frames_in[b][i].kind = "start"
\* Flow 1 ended on a stop frame or on the carrier's disconnect
CarrierEnded(b) ==
  /\ recvPc[b] = "done"
  /\ \/ ws[b].client = "disconnected"
     \/ frames_in[b] # << >> /\ frames_in[b][Len(frames_in[b])].kind = "stop"

\* the phrase set of the specification, matched letter by letter without case
PhraseInText(content) ==
  \E p \in 1..Len(GoodbyePhrases) :
    \E i \in 0..(Len(content) - Len(GoodbyePhrases[p])) :
      \A j \in 1..Len(GoodbyePhrases[p]) :
        LowerChar(content[i + j]) = GoodbyePhrases[p][j]

HumanFarewell(m) ==
  m.kind = "ConversationText" /\ m.role = "user" /\ PhraseInText(m.content)

\* C1 (as claimed): once the carrier has sent stop or disconnected after the
\* start frame, the bridge terminates without the agent doing anything: when
\* no step of the bridge is left to take, Flow 3 has ended, the record is
\* written and the registry entry removed.
C1_CarrierEndTerminates ==
  \A b \in Bridges :
    (StartSeen(b) /\ stream_sid[b] # "unset" /\ CarrierEnded(b) /\ ~CanStep(b))
      => /\ receiverPc[b] \in {"done", "raised"}
         /\ HasRecord(b)
         /\ call_id[b] \notin DOMAIN call_context

\* C2 (as claimed): once the voice agent has closed its connection, normally
\* or not, the bridge terminates without the carrier doing anything: when no
\* step of the bridge is left to take, the handler has returned without an
\* exception and the record holds the transcript captured.
C2_AgentDropTerminates ==
  \A b \in Bridges :
    (dg[b] \in {"closed_ok", "closed_err"} /\ ~CanStep(b))
      => /\ mainPc[b] = "done"
         /\ HasRecord(b)
         /\ completed_calls[call_id[b]].status = "completed"
         /\ completed_calls[call_id[b]].transcript = transcript[b]

\* C3 (as claimed): if the carrier connection ends before any start frame, the
\* bridge still terminates: when no step of the bridge is left to take, Flow 3
\* is not waiting for a stream id, the record is written and the registry
\* entry removed.
C3_NoStartTerminates ==
  \A b \in Bridges :
    (~StartSeen(b) /\ CarrierEnded(b) /\ ~CanStep(b))
      => /\ receiverPc[b] # "wait_sid"
         /\ HasRecord(b)
         /\ call_id[b] \notin DOMAIN call_context

GoodbyeLast(b) ==
  /\ transcript[b] # << >>
  /\ transcript[b][Len(transcript[b])][1] = "user"
  /\ PhraseInText(transcript[b][Len(transcript[b])][2])

\* C4: once a human farewell has been processed the bridge completes with no
\* further input of either peer: Flow 1 ends and the record is written with
\* status completed and a transcript that ends with the farewell; an agent
\* line followed by the farewell gives a transcript of those two, in order.
C4_GoodbyeCompletes ==
  /\ \A b \in Bridges :
       end_requested[b] ~>
         ( /\ recvPc[b] = "done"
           /\ Ended(b)
           /\ HasRecord(b)
           /\ completed_calls[call_id[b]].status = "completed"
           /\ completed_calls[call_id[b]].transcript = transcript[b]
           /\ GoodbyeLast(b) )
  /\ [](\A b \in Bridges :
         (Ended(b) /\ ConvEvents(msgs_in[b]) = << AgentLineMsg, ByeMsg >>)
           => completed_calls[call_id[b]].transcript
                = << << "agent", AgentLineMsg.content >>, << "user", ByeMsg.content >> >>)

\* C4 witness: scenario C has run to completion
C4_Witness ==
  \E b \in Bridges :
    /\ mainPc[b] = "done"
    /\ end_requested[b]
    /\ frames_in[b] = << StartFrame("MZ1"), MediaFrame("inbound", 6400) >>
    /\ msgs_in[b] = << AgentLineMsg, ByeMsg >>
    /\ Len(completed_calls[call_id[b]].transcript) = 2

\* C9 (as claimed): the transcript is the sequence of (role, content) pairs of
\* all conversation-text events read so far.
C9_MirrorsAllEvents ==
  \A b \in Bridges : transcript[b] = RolePairs(ConvEvents(msgs_in[b]))

\* C9 (amended): the transcript is the sequence of (role, content) pairs of the
\* conversation-text events read so far that carry a role and an utterance,
\* in arrival order; it only grows at its end; the record carries it unchanged.
C9_MirrorsFullEvents ==
  /\ [](\A b \in Bridges :
         /\ transcript[b] = RolePairs(FullConvEvents(msgs_in[b]))
         /\ (Ended(b) /\ opened = 1)
              => completed_calls[call_id[b]].transcript = transcript[b])
  /\ [][\A b \in Bridges : IsPrefix(transcript[b], transcript'[b])]_vars

\* C9 witness: two different entries were captured, in the order they came,
\* and the record was written
C9_Witness ==
  \E b \in Bridges :
    /\ mainPc[b] = "done"
    /\ msgs_in[b] = << ConversationTextMsg("user", << "h", "i" >>), AgentLineMsg >>
    /\ completed_calls[call_id[b]].transcript
         = << << "user", << "h", "i" >> >>, << "agent", << "h", "i" >> >> >>

\* C10: the bridge is in goodbye-detected exactly when a conversation-text
\* event of role user whose content holds one of the phrases, whatever the
\* case, has been read; the event that did it is the last one read.
C10_GoodbyeTrigger ==
  \A b \in Bridges :
    /\ end_requested[b] <=> \E i \in 1..Len(msgs_in[b]) : HumanFarewell(msgs_in[b][i])
    /\ \A i \in 1..Len(msgs_in[b]) : HumanFarewell(msgs_in[b][i]) => i = Len(msgs_in[b])

\* C10 witness: an agent line holding a phrase did not end the call, the same
\* words of the human party did
C10_Witness ==
  \E b \in Bridges :
    /\ end_requested[b]
    /\ msgs_in[b] = << ConversationTextMsg("agent", ByeMsg.content), ByeMsg >>


\* a bridge is running on connection b
Running(b) == mainPc[b] \in {"connecting", "gather", "finally", "record"}

\* C5 (as claimed): after a bridge has completed, by any path and whatever
\* _write_transcript did, its call_id has a record and is not in the registry.
C5_RecordAndNoRegistryEntry ==
  \A b \in Bridges :
    Ended(b) => (HasRecord(b) /\ call_id[b] \notin DOMAIN call_context)

\* C6 (as claimed): no two bridges run at the same time for one call_id.
C6_OneBridgePerCall ==
  \A b1, b2 \in Bridges :
    (b1 # b2 /\ Running(b1) /\ Running(b2)) => call_id[b1] # call_id[b2]

\* C7 (as claimed): a record, once written, is never modified or deleted, so
\* every later poll of its call_id returns the same record.
C7_RecordWrittenOnce ==
  [][\A c \in DOMAIN completed_calls :
       /\ c \in DOMAIN completed_calls'
       /\ completed_calls'[c] = completed_calls[c]
       /\ GetCallResult(c)' = GetCallResult(c)]_vars

RECURSIVE InboundBytes(_)
\* N: the bytes of the inbound-track payloads among the frames received
InboundBytes(frames) ==
  IF frames = << >> THEN 0
  ELSE (IF Head(frames).kind = "media" /\ Head(frames).track = "inbound"
          THEN Head(frames).n ELSE 0) + InboundBytes(Tail(frames))

QueuedChunks(b) == Len(SelectSeq(audio_queue[b], LAMBDA q : q.kind = "chunk"))

C11_NothingAfterGoodbye ==
  [][\A b \in Bridges :
       end_requested[b] =>
         /\ ws_sent'[b] = ws_sent[b]
         /\ msgs_in'[b] = msgs_in[b]
         /\ transcript'[b] = transcript[b]]_vars

\* C11 witness: the agent sent audio after the farewell; the bridge completed
\* with that message unread and nothing relayed to the carrier
C11_Witness ==
  \E b \in Bridges :
    /\ mainPc[b] = "done"
    /\ end_requested[b]
    /\ Len(dg_inbox[b]) = 1
    /\ Head(dg_inbox[b]).kind = "binary"
    /\ msgs_in[b] = << ByeMsg >>
    /\ ws_sent[b] = << >>

\* connection b was turned away by the endpoint
Rejected(b) == mainPc[b] = "rejected"
\* connection b is opened by this step
Connects(b) == mainPc[b] = "none" /\ mainPc'[b] # "none"

\* C12: a media stream is turned away exactly when its call_id is not in the
\* registry; the step that turns it away closes it with code 1008 and leaves
\* the registry and the completed store as they were; a connection turned
\* away never gets a bridge: no task, no voice-agent connection, no queue or
\* transcript, and no later step of it exists.
C12_UnknownCallRejected ==
  /\ [][\A b \in Bridges :
          Connects(b) =>
            /\ Rejected(b)' <=> call_id'[b] \notin DOMAIN call_context
            /\ Rejected(b)' =>
                 /\ ws'[b].app = "closed"
                 /\ ws'[b].code = UNKNOWN_CALL_CODE
                 /\ call_context' = call_context
                 /\ completed_calls' = completed_calls]_vars
  /\ [](\A b \in Bridges :
          Rejected(b) =>
            /\ dg[b] = "none"
            /\ config[b] = << >>
            /\ recvPc[b] = "none" /\ senderPc[b] = "none" /\ receiverPc[b] = "none"
            /\ audio_queue[b] = << >> /\ transcript[b] = << >>
            /\ ~CanStep(b))
  /\ [][\A b \in Bridges : Rejected(b) => Rejected(b)']_vars

\* C12 witness: a stream for a call that has already completed is turned away
\* and the record of that call is still there
C12_Witness ==
  \E b \in Bridges :
    /\ Rejected(b)
    /\ ws[b].code = UNKNOWN_CALL_CODE
    /\ call_id[b] \in DOMAIN completed_calls
    /\ call_id[b] \notin DOMAIN call_context

\* some media stream has connected for call id c
Connected(c) == \E b \in Bridges : mainPc[b] # "none" /\ call_id[b] = c
\* a bridge for call id c is still running
BridgeRunning(c) == \E b \in Bridges : call_id[b] = c /\ Running(b)

\* C13 (as claimed): getResult returns the record if there is one, else
\* in_progress if the call_id is registered, else unknown; a call_id never
\* registered yields unknown; a registered call_id no stream has connected
\* for, or one whose bridge is still running, yields in_progress.
C13_PollStatus ==
  \A c \in StreamCallIds :
    /\ GetCallResult(c) =
         IF c \in DOMAIN completed_calls THEN completed_calls[c]
         ELSE [status |-> IF c \in DOMAIN call_context THEN "in_progress"
                          ELSE "unknown",
               transcript_text |-> << >>]
    /\ (c = 0 \/ c > minted) => GetCallResult(c).status = "unknown"
    /\ (c \in DOMAIN call_context /\ ~Connected(c))
         => GetCallResult(c).status = "in_progress"
    /\ BridgeRunning(c) => GetCallResult(c).status = "in_progress"

\* the environment gives no value, or an empty one, for setting f
NotSet(f) ==
  \/ f \notin settings.fields_set
  \/ IF f = "server_base_url" THEN settings[f] = << >> ELSE settings[f] = ""

\* C14 (as claimed): while a telephony credential, the voice-agent credential
\* or the public base URL is not set, every initiate has failed with the
\* configuration error: no call identifier was minted, the provider was not
\* contacted and both stores are as they were.
C14_ConfigurationError ==
  (\E f \in SettingNames : NotSet(f)) =>
    /\ last_initiate.status \in {"none", "error_503"}
    /\ minted = 0
    /\ call_context = NoFunction
    /\ completed_calls = NoFunction

\* C15: when the provider rejects the call, initiate fails with the provider
\* error and the registry is what it was before the request; the completed
\* store is untouched and getResult of the identifier just minted is unknown.
C15_RejectionRollsBack ==
  [][\A p \in Prompts, g \in Greetings :
       (~ConfigMissing(settings) /\ InitiateCall(p, g, "rejected")) =>
         /\ last_initiate'.status = "error_502"
         /\ last_initiate'.call_id = minted + 1
         /\ call_context' = call_context
         /\ completed_calls' = completed_calls
         /\ GetCallResult(minted + 1)'.status = "unknown"]_vars

\* C15 witness: the second request was rejected and the entry of the first
\* call is still registered
C15_Witness ==
  /\ last_initiate = [status |-> "error_502", call_id |-> 2]
  /\ DOMAIN call_context = {1}

\* C16: a successful initiate mints an identifier that is in neither store,
\* adds one registry entry under it with the instruction text (as stored, see
\* AugmentPrompt) and the opening line, leaves every other registry entry and
\* every record as they were, and answers with that identifier and status
\* initiating.
C16_InitiateRegisters ==
  [][\A p \in Prompts, g \in Greetings :
       (~ConfigMissing(settings) /\ InitiateCall(p, g, "ok")) =>
         LET id == minted'
         IN  /\ id \notin DOMAIN call_context
             /\ id \notin DOMAIN completed_calls
             /\ DOMAIN call_context' = DOMAIN call_context \cup {id}
             /\ call_context'[id] =
                  [agent_prompt |-> AugmentPrompt(p), greeting |-> g]
             /\ \A c \in DOMAIN call_context : call_context'[c] = call_context[c]
             /\ completed_calls' = completed_calls
             /\ last_initiate' = [status |-> "initiating", call_id |-> id]]_vars

\* C16 witness: the second call was registered next to the first, whose
\* bridge has already left a record
C16_Witness ==
  /\ last_initiate = [status |-> "initiating", call_id |-> 2]
  /\ DOMAIN call_context = {2}
  /\ DOMAIN completed_calls = {1}

\* the word occurs in the text, letter by letter, whatever the case
OccursNoCase(text, word) ==
  \E i \in 0..(Len(text) - Len(word)) :
    \A j \in 1..Len(word) : LowerChar(text[i + j]) = word[j]

\* the text mentions ending the call
MentionsEnding(text) ==
  \/ OccursNoCase(text, << "g", "o", "o", "d", "b", "y", "e" >>)
  \/ OccursNoCase(text, << "b", "y", "e" >>)

\* C17: every instruction text in the registry mentions ending the call; an
\* initiate that registers a call stores the supplied text followed by the
\* call-ending instruction exactly when the supplied text does not mention
\* it, and the supplied text itself otherwise; augmenting the stored text
\* again changes nothing.
C17_PromptAugmented ==
  /\ [](\A c \in DOMAIN call_context :
          /\ MentionsEnding(call_context[c].agent_prompt)
          /\ AugmentPrompt(call_context[c].agent_prompt) = call_context[c].agent_prompt)
  /\ [][\A p \in Prompts, g \in Greetings, o \in {"ok", "error"} :
          (~ConfigMissing(settings) /\ InitiateCall(p, g, o)) =>
            LET stored == call_context'[minted'].agent_prompt
            IN  /\ ~MentionsEnding(p) => stored = p \o GoodbyeInstruction
                /\ MentionsEnding(p) => stored = p]_vars

\* C17 witness: one prompt was stored with the instruction appended, another,
\* which says Bye, as it was supplied
C17_Witness ==
  /\ DOMAIN call_context = {1, 2}
  /\ call_context[1].agent_prompt = << "a", "s", "k" >> \o GoodbyeInstruction
  /\ call_context[2].agent_prompt = << "s", "a", "y", " ", "B", "y", "e" >>

\* everything that belongs to connection b: its endpoint, its three flows, its
\* two peers, its queues, its buffer and its transcript
ConnState(b) ==
  << call_id[b], mainPc[b], recvPc[b], senderPc[b], receiverPc[b], ws[b], dg[b],
     dg_inbox[b], config[b], audio_queue[b], streamsid_queue[b], inbuffer[b],
     stream_sid[b], transcript[b], end_requested[b], frames_in[b], msgs_in[b],
     dg_sent[b], ws_sent[b] >>
\* what the two stores hold under call id c
StoresAt(c) ==
  << IF c \in DOMAIN call_context THEN << call_context[c] >> ELSE << >>,
     IF c \in DOMAIN completed_calls THEN << completed_calls[c] >> ELSE << >> >>

\* C18: a step of the bridge of connection a, whatever goes wrong in it,
\* changes nothing of any other connection and nothing the stores hold under
\* another call id, and neither blocks nor unblocks another bridge.
C18_ErrorsContained ==
  [][\A a \in Bridges :
       ConnState(a)' # ConnState(a) =>
         /\ \A b \in Bridges \ {a} :
              /\ ConnState(b)' = ConnState(b)
              /\ CanStep(b)' <=> CanStep(b)
         /\ \A c \in StreamCallIds \ {call_id'[a]} : StoresAt(c)' = StoresAt(c)]_vars

\* C18 witness: the bridge of call 1 failed to reach the voice agent and the
\* bridge of call 2, running next to it, captured the farewell and completed
C18_Witness ==
  \E a, b \in Bridges :
    /\ call_id[a] = 1 /\ call_id[b] = 2
    /\ mainPc[a] = "done" /\ dg[a] = "none" /\ transcript[a] = << >>
    /\ mainPc[b] = "done" /\ end_requested[b]
    /\ completed_calls[1].transcript = << >>
    /\ completed_calls[2].transcript = << << "user", ByeMsg.content >> >>

\* the voice-agent connection of b could not be opened, or its Settings
\* message could not be sent: the handler left the `async with` block before
\* any flow was started
FailedConnect(b) ==
  recvPc[b] = "none" /\ mainPc[b] \in {"finally", "record", "done", "escaped"}

\* C19: when the voice agent cannot be reached the bridge still terminates
\* normally: the handler returns without an exception, the carrier connection
\* is closed, the record written is completed with an empty transcript, the
\* registry entry is removed and no transcript file is written.
C19_AgentUnreachable ==
  /\ \A b \in Bridges : FailedConnect(b) ~> (mainPc[b] = "done")
  /\ [](\A b \in Bridges :
          FailedConnect(b) =>
            /\ mainPc[b] # "escaped"
            /\ transcript[b] = << >>
            /\ transcript_files = NoFunction
            /\ mainPc[b] = "done" =>
                 /\ ws[b].app = "closed"
                 /\ HasRecord(b)
                 /\ completed_calls[call_id[b]] =
                      [status |-> "completed", transcript |-> << >>,
                       transcript_text |-> << >>]
                 /\ call_id[b] \notin DOMAIN call_context)

\* C19 witness: the Settings message could not be sent and the bridge ended
C19_Witness ==
  \E b \in Bridges :
    /\ mainPc[b] = "done"
    /\ recvPc[b] = "none"
    /\ dg[b] = "closed"
    /\ call_id[b] \in DOMAIN completed_calls

RECURSIVE SplitLines(_)
\* text.split("\n"), as the consumers of transcript_text read its lines
SplitLines(text) ==
  IF \A i \in 1..Len(text) : text[i] # "\n" THEN << text >>
  ELSE LET k == CHOOSE i \in 1..Len(text) :
                  text[i] = "\n" /\ \A j \in 1..(i - 1) : text[j] # "\n"
       IN  << SubSeq(text, 1, k - 1) >> \o SplitLines(SubSeq(text, k + 1, Len(text)))

\* the lines of a flattened transcript: the empty text has none
TextLines(text) == IF text = << >> THEN << >> ELSE SplitLines(text)

\* the role-labeled line of one transcript entry
RecordLine(entry) ==
  (IF entry[1] = "agent" THEN AgentLabel ELSE DealerLabel) \o << ":", " " >> \o entry[2]

\* the record's status is terminal and its transcript is the list a bridge
\* of the call accumulated
RecordHoldsTranscript(c) ==
  /\ completed_calls[c].status = "completed"
  /\ \E b \in Bridges :
       /\ call_id[b] = c
       /\ mainPc[b] \in {"record", "done", "escaped"}
       /\ completed_calls[c].transcript = transcript[b]

\* the record's text is the join of its entries' role-labeled lines
RecordTextIsJoin(c) ==
  completed_calls[c].transcript_text =
    JoinLines([i \in 1..Len(completed_calls[c].transcript) |->
                 RecordLine(completed_calls[c].transcript[i])])

\* C20: every Completed Call Record has status 'completed', holds the
\* accumulated ordered transcript, and its flattened text has exactly one
\* role-labeled line per transcript entry, in the same order.
C20_RecordWellFormed ==
  \A c \in DOMAIN completed_calls :
    LET rec == completed_calls[c]
        lines == TextLines(rec.transcript_text)
    IN  /\ RecordHoldsTranscript(c)
        /\ Len(lines) = Len(rec.transcript)
        /\ \A i \in 1..Len(lines) : lines[i] = RecordLine(rec.transcript[i])

\* what does hold of every record: status, transcript and the joined text
C20_RecordIsJoin ==
  \A c \in DOMAIN completed_calls : RecordHoldsTranscript(c) /\ RecordTextIsJoin(c)

\* a record of an utterance that spans two lines
C20_TwoLineEntry ==
  \E c \in DOMAIN completed_calls :
    /\ Len(completed_calls[c].transcript) = 1
    /\ Len(TextLines(completed_calls[c].transcript_text)) = 2

\* the transcript of bridge b was persisted: its writer returned
Persisted(b) == mainPc[b] = "done" /\ transcript[b] # << >>

\* C21: the transcripts of two distinct completed calls are stored in
\* distinct records of the Transcript Writer, whatever their completion
\* times; neither is overwritten by the other call's write.
C21_OneRecordPerCall ==
  \A b1, b2 \in Bridges :
    (b1 # b2 /\ call_id[b1] # call_id[b2] /\ Persisted(b1) /\ Persisted(b2)) =>
      \E t1, t2 \in DOMAIN transcript_files :
        /\ t1 # t2
        /\ transcript_files[t1] = TranscriptFileText(transcript[b1])
        /\ transcript_files[t2] = TranscriptFileText(transcript[b2])

\* the same holds when the two writers read different seconds off the clock
C21_DistinctSeconds ==
  \A b1, b2 \in Bridges :
    (b1 # b2 /\ call_id[b1] # call_id[b2] /\ Persisted(b1) /\ Persisted(b2)
       /\ now > 0 /\ 0 \in DOMAIN transcript_files) =>
      Cardinality(DOMAIN transcript_files) = 2

\* Python's str.endswith
EndsWith(t, suffix) ==
  Len(t) >= Len(suffix) /\ SubSeq(t, Len(t) - Len(suffix) + 1, Len(t)) = suffix

\* the markup names a websocket URL whose path is the stream endpoint of call c
PointsAt(resp, c) ==
  /\ resp.status = 200
  /\ StartsWith(resp.stream_url, WsPrefix) \/ StartsWith(resp.stream_url, WssPrefix)
  /\ EndsWith(resp.stream_url, StreamPath(c))

\* C22: for every call_id, registered or not, the Call-Control Responder
\* returns stream markup pointing at the per-call endpoint of that call_id,
\* and it never modifies the Call Registry or the Completed-Call Store.
C22_ResponderPointsAtCall ==
  [][\A c \in StreamCallIds :
       TwimlWebhook(c) =>
         /\ PointsAt(last_twiml', c)
         /\ \A d \in StreamCallIds \ {c} : ~PointsAt(last_twiml', d)
         /\ call_context' = call_context
         /\ completed_calls' = completed_calls]_vars

\* the responder has answered for a call id that is not in the registry while
\* another call is registered
C22_Witness ==
  \E c \in StreamCallIds :
    /\ PointsAt(last_twiml, c)
    /\ c \notin DOMAIN call_context
    /\ call_context # NoFunction

RECURSIVE ElapsedAfter(_)
\* the elapsed time after n polls: steps of POLL_INTERVAL, then of
\* SLOW_INTERVAL once the elapsed time has exceeded SLOW_AFTER
ElapsedAfter(n) ==
  IF n = 0 THEN 0
  ELSE LET before == ElapsedAfter(n - 1)
       IN  before + (IF before > SLOW_AFTER THEN SLOW_INTERVAL ELSE POLL_INTERVAL)

\* C23: the polling loop always terminates: for every positive timeout it
\* polls finitely often (elapsed grows by 3, then by 5 once it exceeds 30,
\* until it reaches the timeout) and returns the completed record if a poll
\* observed it, 'unknown' as soon as a poll reports unknown, and otherwise
\* 'timeout'; polling and timing out never change the Call Registry, the
\* Completed-Call Store or a running bridge.
C23_PollingTerminates ==
  /\ (poller.pc = "polling") ~> (poller.pc = "returned")
  /\ [](poller.pc # "idle" =>
          /\ poller.elapsed = ElapsedAfter(poller.polls)
          /\ poller.polls > 0 => ElapsedAfter(poller.polls - 1) < poller.timeout
          /\ poller.pc = "polling" => poller.last \in {"none", "in_progress", "error"}
          /\ poller.pc = "returned" =>
               /\ poller.polls > 0
               /\ poller.result.status \in {"completed", "unknown", "timeout"}
               /\ poller.result.status = "completed" <=> poller.last = "completed"
               /\ poller.result.status = "unknown" <=> poller.last = "unknown"
               /\ poller.result.status = "completed" =>
                    poller.result = completed_calls[poller.call_id]
               /\ poller.result.status = "timeout" =>
                    poller.elapsed >= poller.timeout)
  /\ [][\A getOk \in BOOLEAN :
          PollIteration(getOk) =>
            UNCHANGED << settings, storeVars, opened, call_id, mainPc, taskVars,
                         connVars, flowVars, logVars >>]_vars

\* a poll that outlasted the switch to the slow interval has returned
C23_Witness ==
  /\ poller.pc = "returned"
  /\ poller.interval = SLOW_INTERVAL
  /\ poller.result.status \in {"completed", "timeout"}

\* the decoded inbound-track payloads, in the order their frames were received
ReceivedBytes(frames) ==
  Concat([k \in 1..Len(frames) |->
            IF frames[k].kind = "media" /\ frames[k].track = "inbound"
              THEN ExtendBytes(<< >>, k, frames[k].n)
              ELSE << >>])

RECURSIVE Normalize(_)
\* a run of bytes with adjacent pieces of the same payload joined
Normalize(buf) ==
  IF Len(buf) < 2 THEN buf
  ELSE LET a == buf[1]
           c == buf[2]
       IN  IF a.f = c.f /\ a.lo + a.n = c.lo
             THEN Normalize(<< [f |-> a.f, lo |-> a.lo, n |-> a.n + c.n] >>
                              \o SubSeq(buf, 3, Len(buf)))
             ELSE << a >> \o Normalize(Tail(buf))

\* every byte of the chunk is a byte of a payload received on connection b
RealBytes(b, chunk) ==
  \A i \in 1..Len(chunk) :
    /\ chunk[i].f \in 1..Len(frames_in[b])
    /\ frames_in[b][chunk[i].f].kind = "media"
    /\ frames_in[b][chunk[i].f].track = "inbound"
    /\ chunk[i].lo >= 0 /\ chunk[i].n > 0
    /\ chunk[i].lo + chunk[i].n <= frames_in[b][chunk[i].f].n

\* C24: every audio message Flow 2 writes to the voice-agent connection is a
\* chunk of exactly 3200 bytes of received audio: no shorter and no padded
\* chunk is written, at any point of the call including its end.
C24_ChunksAreWhole ==
  \A b \in Bridges :
    \A i \in 1..Len(dg_sent[b]) :
      /\ BufLen(dg_sent[b][i]) = BUFFER_SIZE
      /\ RealBytes(b, dg_sent[b][i])

\* the call has ended with audio forwarded and a partial remainder left behind
C24_Witness ==
  \E b \in Bridges :
    /\ mainPc[b] = "done"
    /\ dg_sent[b] # << >>
    /\ BufLen(inbuffer[b]) \in 1..(BUFFER_SIZE - 1)

\* C25: at every moment the concatenation of the chunks forwarded so far is
\* a prefix of the concatenation of the decoded inbound-track payloads in
\* the order their frames were received: no byte is reordered, duplicated or
\* skipped.
C25_ForwardedIsPrefix ==
  \A b \in Bridges :
    LET sent == Concat(dg_sent[b])
        received == ReceivedBytes(frames_in[b])
    IN  /\ BufLen(sent) <= BufLen(received)
        /\ Normalize(sent) = Normalize(TakeBytes(received, BufLen(sent)))

\* two chunks cut across the boundary of two payloads have been forwarded
\* while later audio is still buffered or queued
C25_Witness ==
  \E b \in Bridges :
    /\ Len(dg_sent[b]) >= 2
    /\ \E i \in 1..Len(dg_sent[b]) : Len(dg_sent[b][i]) >= 2
    /\ BufLen(Concat(dg_sent[b])) < BufLen(ReceivedBytes(frames_in[b]))

\* Flow 2 of connection b is not running: it never started, it stopped on a
\* sentinel or a failed write, or it was cancelled
SenderStopped(b) == senderPc[b] \in {"none", "done", "failed", "cancelled"}
\* _handle_twilio_voice is past its try block
PastGather(b) == mainPc[b] \in {"finally", "record", "done", "escaped"}

\* C26: once Flow 1 and Flow 3 have both ended, Flow 2 is cancelled if it is
\* still running; after the bridge has completed by any path, Flow 2 is
\* eventually no longer running and no task remains blocked on the audio
\* queue.
C26_SenderCancelled ==
  /\ [][\A b \in Bridges : GatherDone(b) => SenderStopped(b)']_vars
  /\ [](\A b \in Bridges :
          (PastGather(b) /\ recvPc[b] = "done" /\ receiverPc[b] = "done")
            => SenderStopped(b))
  /\ \A b \in Bridges : Ended(b) ~> [](SenderStopped(b))

\* the bridge has completed and Flow 2 was cancelled while waiting on the queue
C26_Witness ==
  \E b \in Bridges : Ended(b) /\ senderPc[b] = "cancelled"

\* Flow 1 / Flow 3 of connection b is not running: it never started or it ended
Flow1Ended(b) == recvPc[b] \in {"none", "done"}
Flow3Ended(b) == receiverPc[b] \in {"none", "done", "raised"}

\* C27: the Completed Call Record of a call is written only after both
\* Flow 1 and Flow 3 of its bridge have ended; on no completion path is the
\* record written while either of those flows is still running.
C27_RecordAfterFlows ==
  [][\A b \in Bridges, ok \in BOOLEAN, t \in 0..MaxTime :
       WriteRecord(b, ok, t) => Flow1Ended(b) /\ Flow3Ended(b)]_vars

\* Flow 3 never outlives the try block: only Flow 1 can run when the record
\* is written
C27_Flow3Ended ==
  [][\A b \in Bridges, ok \in BOOLEAN, t \in 0..MaxTime :
       WriteRecord(b, ok, t) => Flow3Ended(b)]_vars

\* C28: on bridge completion by any path the Transcript Writer is invoked
\* exactly once if the accumulated transcript is non-empty and not at all if
\* it is empty, and it receives the same entries, in the same order, as the
\* transcript stored in the Completed Call Record.
C28_WriterOncePerCall ==
  /\ [][\A b \in Bridges, ok \in BOOLEAN, t \in 0..MaxTime :
          WriteRecord(b, ok, t) =>
            LET rec == completed_calls'[call_id[b]]
            IN  /\ rec.transcript = transcript[b]
                /\ IF rec.transcript = << >>
                     THEN transcript_files' = transcript_files /\ mainPc'[b] = "done"
                     ELSE IF ok
                       THEN /\ DOMAIN transcript_files' = DOMAIN transcript_files \cup {t}
                            /\ transcript_files'[t] = TranscriptFileText(rec.transcript)
                            /\ \A u \in DOMAIN transcript_files \ {t} :
                                 transcript_files'[u] = transcript_files[u]
                       ELSE transcript_files' = transcript_files
                              /\ mainPc'[b] = "escaped"]_vars
  /\ [][\A b \in Bridges :
          Ended(b) => /\ mainPc'[b] = mainPc[b]
                      /\ transcript'[b] = transcript[b]
                      /\ transcript_files' = transcript_files]_vars

\* a call has completed and its two transcript entries are in the file
C28_Witness ==
  \E b \in Bridges :
    /\ mainPc[b] = "done"
    /\ Len(transcript[b]) = 2
    /\ transcript[b][1] # transcript[b][2]
    /\ \E t \in DOMAIN transcript_files :
         transcript_files[t] = TranscriptFileText(transcript[b])

\* Flow 3 of connection b reads, before any goodbye, a message of one of `kinds`
ReadsMsg(b, kinds) ==
  /\ receiverPc[b] = "run"
  /\ dg_inbox[b] # << >>
  /\ Head(dg_inbox[b]).kind \in kinds
  /\ ~end_requested[b]
  /\ \E r \in BOOLEAN : StsReceiver(b, r)

\* the message is ignored: nothing is logged or sent and Flow 3 reads on
Ignored(b) ==
  /\ transcript'[b] = transcript[b]
  /\ ws_sent'[b] = ws_sent[b]
  /\ receiverPc'[b] = "run"

\* C29: a malformed control message from the voice-agent connection (text
\* that is not valid JSON, or valid JSON that is not an event object) is
\* ignored without interrupting Flow 3: the transcript and the carrier output
\* are unchanged by it and later agent messages are still consumed.
C29_MalformedIgnored ==
  [][\A b \in Bridges : ReadsMsg(b, {"badjson", "nonobject"}) => Ignored(b)]_vars

\* text that is not valid JSON is ignored
C29_BadJsonIgnored ==
  [][\A b \in Bridges : ReadsMsg(b, {"badjson"}) => Ignored(b)]_vars

\* the frame is dropped: the buffer and the queue are as before and Flow 1
\* waits for the next frame
Dropped(b) ==
  /\ inbuffer'[b] = inbuffer[b]
  /\ audio_queue'[b] = audio_queue[b]
  /\ recvPc'[b] = "run"

\* C30: a malformed frame from the carrier connection (text that is not
\* valid JSON, or a media frame whose payload is not valid base64) is dropped
\* and Flow 1 continues: the audio buffer is unchanged by it, no end sentinel
\* is enqueued because of it, and later carrier frames are still consumed.
C30_MalformedFrameDropped ==
  [][\A b \in Bridges, fr \in {BadJsonFrame, BadPayloadFrame} :
       TwilioReceiver(b, fr) => Dropped(b)]_vars

\* the malformed frame leaves the audio buffer as it was
C30_BufferUnchanged ==
  [][\A b \in Bridges, fr \in {BadJsonFrame, BadPayloadFrame} :
       TwilioReceiver(b, fr) => inbuffer'[b] = inbuffer[b]]_vars

\* C31: whenever Flow 1 ends, by a stop frame, a carrier disconnect or an
\* error, it enqueues an end-of-input sentinel after every chunk it
\* enqueued; Flow 2 stops at the first sentinel it dequeues, never writes the
\* sentinel or anything enqueued after it to the voice-agent connection, and
\* is unaffected by a second sentinel enqueued by the other flow.
C31_SentinelEndsFlow2 ==
  /\ [][\A b \in Bridges :
          /\ (recvPc[b] = "run" /\ recvPc'[b] = "done") =>
               audio_queue'[b] = Append(audio_queue[b], QNone)
          /\ recvPc[b] = "done" =>
               recvPc'[b] = "done" /\ QueuedChunks(b)' <= QueuedChunks(b)
          /\ (StsSender(b) /\ Head(audio_queue[b]).kind = "none") =>
               senderPc'[b] = "done" /\ dg_sent'[b] = dg_sent[b]
          /\ senderPc[b] = "done" =>
               /\ senderPc'[b] = "done"
               /\ dg_sent'[b] = dg_sent[b]
               /\ IsPrefix(audio_queue[b], audio_queue'[b])]_vars
  /\ [](\A b \in Bridges : \A i \in 1..Len(dg_sent[b]) : BufLen(dg_sent[b][i]) > 0)

\* Flow 2 has stopped at the sentinel of a goodbye; Flow 1 has ended after it
\* and its chunk and its own sentinel stay in the queue
C31_Witness ==
  \E b \in Bridges :
    /\ senderPc[b] = "done"
    /\ recvPc[b] = "done"
    /\ end_requested[b]
    /\ \E i \in 1..Len(audio_queue[b]) : audio_queue[b][i].kind = "none"

\* the start frames among the carrier frames received, in order
StartFrames(b) == SelectSeq(frames_in[b], LAMBDA fr : fr.kind = "start")

\* C32: every 'media' frame and every 'clear' frame the bridge sends to the
\* carrier carries the stream correlation id of the carrier's first start
\* frame; no frame is sent to the carrier before a start frame has been
\* received, and a later start frame does not change the id used.
C32_FramesCarryFirstSid ==
  \A b \in Bridges :
    \A i \in 1..Len(ws_sent[b]) :
      /\ ws_sent[b][i].event \in {"media", "clear"}
      /\ StartFrames(b) # << >>
      /\ ws_sent[b][i].streamSid = StartFrames(b)[1].sid

\* two start frames with different ids were received and a media frame and a
\* clear frame were sent
C32_Witness ==
  \E b \in Bridges :
    /\ Len(StartFrames(b)) = 2
    /\ StartFrames(b)[1].sid # StartFrames(b)[2].sid
    /\ \E i, j \in 1..Len(ws_sent[b]) :
         ws_sent[b][i].event = "media" /\ ws_sent[b][j].event = "clear"

\* the ids of the binary messages among `log`, in order
BinaryIds(log) ==
  LET bins == SelectSeq(log, LAMBDA m : m.kind = "binary")
  IN  [i \in 1..Len(bins) |-> bins[i].id]
\* the payloads of the media frames sent to the carrier, in order
MediaIds(out) ==
  LET media == SelectSeq(out, LAMBDA fr : fr.event = "media")
  IN  [i \in 1..Len(media) |-> media[i].payload]

\* C33: the binary messages Flow 3 consumes before goodbye or termination
\* are forwarded to the carrier as media frames in the order received, each
\* exactly once and none skipped; agent audio that arrives before the
\* carrier's start frame is kept and forwarded, in order, once the stream
\* correlation id is known.
C33_AgentAudioInOrder ==
  /\ [](\A b \in Bridges :
          /\ IsPrefix(MediaIds(ws_sent[b]), BinaryIds(msgs_in[b]))
          /\ ws[b].client = "open" =>
               MediaIds(ws_sent[b]) = BinaryIds(msgs_in[b]))
  /\ [][\A b \in Bridges :
          IsPrefix(msgs_in[b] \o dg_inbox[b], msgs_in'[b] \o dg_inbox'[b])]_vars

\* agent audio sent before the start frame was forwarded once the id was
\* known, and a second piece after it
C33_Witness ==
  \E b \in Bridges :
    /\ MediaIds(ws_sent[b]) = << 1, 2 >>
    /\ Len(frames_in[b]) = 1
    /\ ws[b].client = "open"

\* C34: if initiate does not return success for any reason (configuration
\* error, provider rejection, or any other error raised while asking the
\* provider to place the call), the Call Registry is left as it was before
\* the request: no entry for the minted call_id remains to be reported as
\* in progress.
C34_FailedInitiateLeavesRegistry ==
  [][\A p \in Prompts, g \in Greetings, o \in {"ok", "rejected", "error"} :
       (InitiateCall(p, g, o) /\ last_initiate'.status # "initiating") =>
         /\ call_context' = call_context
         /\ \A c \in StreamCallIds :
              GetCallResult(c)'.status = "in_progress" =>
                GetCallResult(c).status = "in_progress"]_vars

\* the registry is left as it was on a configuration error and on a
\* rejection by the provider
C34_KnownFailuresLeaveRegistry ==
  [][\A p \in Prompts, g \in Greetings, o \in {"ok", "rejected", "error"} :
       (InitiateCall(p, g, o) /\ last_initiate'.status \in {"error_503", "error_502"}) =>
         call_context' = call_context]_vars

\* how far a poll result is along unknown, in_progress, completed
ResultRank(result) ==
  CASE result.status = "unknown" -> 0
    [] result.status = "in_progress" -> 1
    [] OTHER -> 2

\* C35: poll results are monotone per call_id: once getResult has returned
\* the Completed Call Record it never later returns 'in_progress' or
\* 'unknown', and once it has returned 'in_progress' for a call whose
\* initiate succeeded it never later returns 'unknown'.
C35_PollResultsMonotone ==
  /\ [][\A c \in StreamCallIds :
          ResultRank(GetCallResult(c)') >= ResultRank(GetCallResult(c))]_vars
  /\ [](\A c \in StreamCallIds :
          GetCallResult(c).status \in {"unknown", "in_progress", "completed"})

\* a call that was in progress has its record, and its registry entry is gone
C35_Witness ==
  \E c \in 1..minted :
    /\ GetCallResult(c).status = "completed"
    /\ c \notin DOMAIN call_context


\* the bridge of connection b has written its record
RecordWritten(b) == mainPc[b] \in {"done", "escaped"}

\* C36: after a bridge has written its Completed Call Record it appends no
\* further entry to its transcript, so the record's transcript equals the
\* bridge's final transcript on every completion path.
C36_NoEntryAfterRecord ==
  /\ [][\A b \in Bridges, ok \in BOOLEAN, t \in 0..MaxTime :
          WriteRecord(b, ok, t) =>
            /\ completed_calls'[call_id[b]].transcript = transcript[b]
            /\ RecordWritten(b)']_vars
  /\ [][\A b \in Bridges :
          RecordWritten(b) => transcript'[b] = transcript[b] /\ RecordWritten(b)']_vars

\* a record of a non-empty transcript, written on the path where Flow 3
\* raised while the agent still had a message for the bridge
C36_Witness ==
  \E b \in Bridges :
    /\ RecordWritten(b)
    /\ transcript[b] # << >>
    /\ receiverPc[b] = "raised"
    /\ completed_calls[call_id[b]].transcript = transcript[b]


\* a conversation-text event that carries both a role and a content
NonEmptyText(m) == m.kind = "ConversationText" /\ m.role # "" /\ m.content # << >>

\* the (role, content) pairs of a sequence of conversation-text events
EntriesOf(msgs) == [i \in 1..Len(msgs) |-> << msgs[i].role, msgs[i].content >>]

\* C37: a conversation-text event whose role or content is missing or empty
\* is not appended to the transcript and never triggers goodbye termination,
\* while every conversation-text event with non-empty role and content that
\* Flow 3 consumes is appended exactly once.
C37_OnlyNonEmptyTextAppended ==
  /\ [](\A b \in Bridges :
          transcript[b] = EntriesOf(SelectSeq(msgs_in[b], NonEmptyText)))
  /\ [][\A b \in Bridges :
          (ReadsMsg(b, {"ConversationText"}) /\ ~NonEmptyText(Head(dg_inbox[b]))) =>
            /\ transcript'[b] = transcript[b]
            /\ end_requested'[b] = end_requested[b]
            /\ audio_queue'[b] = audio_queue[b]
            /\ receiverPc'[b] = "run"]_vars

\* Flow 3 has consumed an event without a role and an event with both fields
C37_Witness ==
  \E b \in Bridges :
    /\ Len(msgs_in[b]) = 2
    /\ msgs_in[b][1].kind = "ConversationText"
    /\ msgs_in[b][1].role = ""
    /\ msgs_in[b][1].content # << >>
    /\ NonEmptyText(msgs_in[b][2])
    /\ Len(transcript[b]) = 1


\* from the same state and on the same frame or message, a step of a flow of
\* the standalone bridge is the step the API bridge takes
SameFlow1(b, frames) ==
  /\ \A fr \in frames : ScriptTwilioReceiver(b, fr) => TwilioReceiver(b, fr)
  /\ ScriptTwilioReceiverClosed(b) => TwilioReceiverDisconnected(b)
SameFlow2(b) == ScriptStsSender(b) => StsSender(b)
SameFlow3(b) ==
  /\ ScriptStsReceiverGetSid(b) => StsReceiverGetSid(b)
  /\ \A r \in BOOLEAN : ScriptStsReceiver(b, r) => StsReceiver(b, r)
  /\ ScriptStsReceiverClose(b) => \E r \in BOOLEAN : StsReceiverClose(b, r)

\* C38: the two bridge implementations are behaviourally equivalent: for
\* every sequence of carrier frames and voice-agent messages (including
\* malformed frames and disconnects), the standalone bridge in script.py and
\* the API bridge in voice.py forward the same chunk sequence to the voice
\* agent, send the same frame sequence to the carrier, accumulate the same
\* transcript, and end their flows at the same points.
C38_BridgesEquivalent ==
  [][\A b \in Bridges :
       SameFlow1(b, CarrierFrames(b)) /\ SameFlow2(b) /\ SameFlow3(b)]_vars

\* the carrier frames json.loads and b64decode accept
WellFormedFrames(b) == CarrierFrames(b) \ {BadJsonFrame, BadPayloadFrame}

\* no frame the carrier has sent on connection b was malformed
NoMalformedFrame(b) ==
  \A i \in 1..Len(frames_in[b]) : frames_in[b][i] \notin {BadJsonFrame, BadPayloadFrame}

\* the bridges agree on well-formed carrier frames and in Flow 2, and in
\* Flow 3 as long as the carrier has sent no malformed frame
C38_SameOnWellFormedFrames ==
  [][\A b \in Bridges :
       /\ SameFlow1(b, WellFormedFrames(b))
       /\ SameFlow2(b)
       /\ NoMalformedFrame(b) => SameFlow3(b)]_vars

\* the standalone bridge has read a frame that is not JSON and Flow 1 runs on
C38_Flow1RunsOn ==
  /\ frames_in[1] # << >>
  /\ frames_in[1][Len(frames_in[1])] = BadJsonFrame
  /\ recvPc[1] = "run"

====
